---- MODULE Spec2Model ----
(***************************************************************************)
(* Model of the AWS IDC SCIM client (aws_idc_scim/client.py, models.py):   *)
(* the reconciliation engine (_sync_users_impl, _sync_groups_impl), the    *)
(* batched group-membership patches and the directory they talk to.        *)
(***************************************************************************)
EXTENDS Integers, Sequences, FiniteSets, TLC

VARIABLES
    api,            \* the public operation invoked
    allow_delete_arg, \* the allow_delete argument of full_sync_*
    dry_run,        \* the dry_run argument
    users,          \* desired users (list[SCIMUser]); the engine may set .id
    groups,         \* desired groups (list[SCIMGroup])
    members_map,    \* {groupName: [userName, ...]}
    user_ids,       \* the id list given to add/remove_group_members
    dirUsers,       \* directory: stored /Users resources, in server order
    dirGroups,      \* directory: stored /Groups resources, in server order
    dirMembers,     \* directory: group id -> set of member user ids
    nextId,         \* directory: next id it assigns
    dir0,           \* the directory as it was when the run started
    pc,             \* position of the running operation
    run,            \* 1 = first invocation, 2 = the same invocation repeated,
                    \* 3 = the invocation repeated live after a dry run
    first,          \* outcome of the first invocation (kept for run 2)
    pg,             \* locals of _paginate: is_first_request, cursor, items yielded
    idc_users,      \* snapshot: the users listed, in dict insertion order
    idc_groups,     \* snapshot: the groups listed, in dict insertion order
    idx,            \* loop index (desired item, or snapshot entry in the delete phase)
    result,         \* the SyncResult being built
    calls,          \* every remote call issued in this run, in order
    pages,          \* the list responses a listing on its own received, in order
    req,            \* an operation called on its own: its name and arguments
    ret             \* what that call returned or raised (<<>> before it ends)

vars == <<api, allow_delete_arg, dry_run, users, groups, members_map, user_ids,
          dirUsers, dirGroups, dirMembers, nextId, dir0, pc, run, first, pg,
          idc_users, idc_groups, idx, result, calls, pages, req, ret>>

----------------------------------------------------------------------------
\* Bounds of the model

\* longest desired list (users or groups) given to a sync
MaxDesired == 2
\* items the modelled directory puts on one page (it may return fewer than count)
PageCap == 1
\* longest id list given to add_group_members / remove_group_members
MaxIds == 250
\* most items of a listing on its own
MaxItems == 250

----------------------------------------------------------------------------
\* Program constants

MAX_PAGE_SIZE == 100
\* `id: str | None = None`: the falsy id
NoId == 0
None == "None"
USER_SCHEMA == "urn:ietf:params:scim:schemas:core:2.0:User"
GROUP_SCHEMA == "urn:ietf:params:scim:schemas:core:2.0:Group"
ENTERPRISE_USER_SCHEMA == "urn:ietf:params:scim:schemas:extension:enterprise:2.0:User"
PATCH_SCHEMA == "urn:ietf:params:scim:api:messages:2.0:PatchOp"

UserNames == {"a", "b"}
GroupNames == {"g1", "g2"}

Min(x, y) == IF x < y THEN x ELSE y
Range(s) == {s[i] : i \in DOMAIN s}
EmptyDict == [k \in {} |-> TRUE]
\* dict.get(key, default)
Get(d, k, default) == IF k \in DOMAIN d THEN d[k] ELSE default
\* a dict with the entry written when the value is present
Opt(k, v, present) == IF present THEN (k :> v) ELSE EmptyDict

----------------------------------------------------------------------------
\* Resource model (models.py)

\* A dataclass field the record at hand does not carry holds its default
\* (None; the empty list for a list or an optional sub-record, which is a
\* sequence of at most one record)
Field(u, f, default) == IF f \in DOMAIN u THEN u[f] ELSE default

\* wrong variant: a field that holds None is emitted too
SparseDense(r, fields) == [k \in fields \cap DOMAIN r |-> r[k]]
\* the chain `if self.f is not None: d["f"] = self.f` over the fields
Sparse(r, fields) == [k \in {f \in fields \cap DOMAIN r : r[f] # None} |-> r[k]]

NameFields == {"familyName", "givenName", "middleName", "honorificPrefix",
               "honorificSuffix", "formatted"}
AddressFields == {"formatted", "streetAddress", "locality", "region",
                  "postalCode", "country"}
EnterpriseFields == {"employeeNumber", "costCenter", "organization", "division",
                     "department"}
\* the optional single-valued attributes of SCIMUser other than id
SingleFields == {"externalId", "displayName", "nickName", "profileUrl", "title",
                 "userType", "preferredLanguage", "locale", "timezone", "active"}

\* SCIMEmail.to_dict
EmailToDict(e) ==
    ("value" :> e.value)
    @@ Opt("type", e.type, e.type # None)
    @@ Opt("primary", e.primary, e.primary # None)

\* SCIMEmail.from_dict
EmailFromDict(d) ==
    [value |-> Get(d, "value", ""), type |-> Get(d, "type", None),
     primary |-> Get(d, "primary", None)]

\* SCIMName.to_dict, SCIMAddress.to_dict
NameToDict(n) == Sparse(n, NameFields)
AddressToDict(a) == Sparse(a, AddressFields)
\* SCIMPhoneNumber.to_dict, SCIMRole.to_dict
PhoneToDict(p) == ("value" :> p.value) @@ Sparse(p, {"type"})
RoleToDict(r) == ("value" :> r.value) @@ Sparse(r, {"type", "primary"})
\* SCIMManager.to_dict, SCIMEnterpriseUser.to_dict
ManagerToDict(m) == ("value" :> m.value) @@ Opt("$ref", m.ref, m.ref # None)
EnterpriseToDict(e) ==
    Sparse(e, EnterpriseFields)
    @@ (IF e.manager # <<>> THEN ("manager" :> ManagerToDict(e.manager[1]))
        ELSE EmptyDict)

\* `d[key] = [x.to_dict() for x in xs]` when the list is not empty
ListToDict(key, ds) == IF ds # <<>> THEN (key :> ds) ELSE EmptyDict

\* SCIMUser.to_dict(include_id, for_create): only present fields are emitted
UserToDict(u, include_id, for_create) ==
    LET name == Field(u, "name", <<>>)
        enterprise == Field(u, "enterprise", <<>>)
    IN ("userName" :> u.userName)
       @@ Opt("schemas",
              <<USER_SCHEMA>> \o (IF enterprise # <<>>
                                  THEN <<ENTERPRISE_USER_SCHEMA>> ELSE <<>>),
              for_create)
       @@ Opt("id", u.id, include_id /\ u.id # NoId)
       @@ Sparse(u, SingleFields)
       @@ (IF name # <<>> /\ NameToDict(name[1]) # EmptyDict
           THEN ("name" :> NameToDict(name[1])) ELSE EmptyDict)
       @@ ListToDict("emails", [i \in DOMAIN Field(u, "emails", <<>>) |->
                         EmailToDict(Field(u, "emails", <<>>)[i])])
       @@ ListToDict("phoneNumbers", [i \in DOMAIN Field(u, "phoneNumbers", <<>>) |->
                         PhoneToDict(Field(u, "phoneNumbers", <<>>)[i])])
       @@ ListToDict("addresses", [i \in DOMAIN Field(u, "addresses", <<>>) |->
                         AddressToDict(Field(u, "addresses", <<>>)[i])])
       @@ ListToDict("roles", [i \in DOMAIN Field(u, "roles", <<>>) |->
                         RoleToDict(Field(u, "roles", <<>>)[i])])
       @@ (IF enterprise # <<>> /\ EnterpriseToDict(enterprise[1]) # EmptyDict
           THEN (ENTERPRISE_USER_SCHEMA :> EnterpriseToDict(enterprise[1]))
           ELSE EmptyDict)

\* wrong variant: from_dict forgets the active flag
UserFromDictNoActive(d) ==
    [id |-> Get(d, "id", NoId),
     userName |-> Get(d, "userName", ""),
     externalId |-> Get(d, "externalId", None),
     displayName |-> Get(d, "displayName", None),
     active |-> None,
     emails |-> LET es == Get(d, "emails", <<>>)
                IN [i \in DOMAIN es |-> EmailFromDict(es[i])],
     meta |-> Get(d, "meta", None)]

\* `cls(f=data.get("f"), ...)` of SCIMName, SCIMAddress, SCIMPhoneNumber and
\* SCIMRole: a missing key becomes None, a missing value the empty string
RecordFromDict(d, fields) ==
    [f \in fields |-> Get(d, f, IF f = "value" THEN "" ELSE None)]
\* SCIMManager.from_dict, SCIMEnterpriseUser.from_dict
ManagerFromDict(d) == [value |-> Get(d, "value", ""), ref |-> Get(d, "$ref", None)]
EnterpriseFromDict(d) ==
    RecordFromDict(d, EnterpriseFields)
    @@ ("manager" :> IF Get(d, "manager", EmptyDict) # EmptyDict
                     THEN <<ManagerFromDict(d["manager"])>> ELSE <<>>)

\* the __post_init__ of SCIMEmail, SCIMPhoneNumber and SCIMManager, which the
\* from_dict of each runs: TRUE when one of them raises SCIMValidationError
FromDictRaises(d) ==
    \/ \E e \in Range(Get(d, "emails", <<>>)) : Get(e, "value", "") = ""
    \/ \E ph \in Range(Get(d, "phoneNumbers", <<>>)) : Get(ph, "value", "") = ""
    \/ LET m == Get(Get(d, ENTERPRISE_USER_SCHEMA, EmptyDict), "manager", EmptyDict)
       IN m # EmptyDict /\ Get(m, "value", "") = ""

\* `[X.from_dict(x) for x in data[key]]` when data.get(key) is not empty
ListFromDict(d, key, fields) ==
    IF Get(d, key, <<>>) # <<>>
    THEN (key :> [i \in DOMAIN d[key] |-> RecordFromDict(d[key][i], fields)])
    ELSE EmptyDict

\* SCIMUser.from_dict: the record itself is not validated (_skip_validation),
\* missing keys become None
UserFromDict(d) ==
    [id |-> Get(d, "id", NoId),
     userName |-> Get(d, "userName", ""),
     externalId |-> Get(d, "externalId", None),
     displayName |-> Get(d, "displayName", None),
     active |-> Get(d, "active", None),
     emails |-> LET es == Get(d, "emails", <<>>)
                IN [i \in DOMAIN es |-> EmailFromDict(es[i])],
     meta |-> Get(d, "meta", None)]
    @@ [k \in (SingleFields \ {"externalId", "displayName", "active"}) \cap DOMAIN d
          |-> d[k]]
    @@ (IF Get(d, "name", EmptyDict) # EmptyDict
        THEN ("name" :> <<RecordFromDict(d["name"], NameFields)>>) ELSE EmptyDict)
    @@ ListFromDict(d, "phoneNumbers", {"value", "type"})
    @@ ListFromDict(d, "addresses", AddressFields)
    @@ ListFromDict(d, "roles", {"value", "type", "primary"})
    @@ (IF Get(d, ENTERPRISE_USER_SCHEMA, EmptyDict) # EmptyDict
        THEN ("enterprise" :> <<EnterpriseFromDict(d[ENTERPRISE_USER_SCHEMA])>>)
        ELSE EmptyDict)

\* SCIMUser.__post_init__ of a locally built record: TRUE when nothing is raised
UserValid(u) ==
    /\ u.userName # ""
    /\ u.emails # <<>>
    /\ Len(u.emails) <= 1
    /\ Len(Field(u, "phoneNumbers", <<>>)) <= 1
    /\ Len(Field(u, "addresses", <<>>)) <= 1

\* SCIMUser(...) as a caller builds it
MkUser(name, displayName, active) ==
    [id |-> NoId, userName |-> name, externalId |-> None,
     displayName |-> displayName, active |-> active,
     emails |-> <<[value |-> name, type |-> "work", primary |-> "true"]>>,
     meta |-> None]

\* wrong variant: the create body carries a members field
GroupToDictWithMembers(g, for_create) ==
    ("displayName" :> g.displayName)
    @@ Opt("schemas", <<GROUP_SCHEMA>>, for_create)
    @@ Opt("externalId", g.externalId, g.externalId # None)
    @@ Opt("members", <<>>, for_create)

\* SCIMGroup.to_dict(for_create): members are never emitted
GroupToDict(g, for_create) ==
    ("displayName" :> g.displayName)
    @@ Opt("schemas", <<GROUP_SCHEMA>>, for_create)
    @@ Opt("externalId", g.externalId, g.externalId # None)

\* SCIMGroup.from_dict
GroupFromDict(d) ==
    [id |-> Get(d, "id", NoId),
     displayName |-> Get(d, "displayName", ""),
     externalId |-> Get(d, "externalId", None)]

MkGroup(name) == [id |-> NoId, displayName |-> name, externalId |-> None]

\* wrong variant: only the keys of the local dict are compared
DiffDictLocalKeys(local, remote) ==
    {k \in DOMAIN local \ {"id", "schemas", "meta"} :
        k \notin DOMAIN remote \/ local[k] # remote[k]}

\* SCIMClient._diff_dict: keys whose values differ, id/schemas/meta left out
DiffDict(local, remote) ==
    LET skip == {"id", "schemas", "meta"}
        lk == DOMAIN local \ skip
        rk == DOMAIN remote \ skip
    IN {k \in lk \cup rk :
          \/ (k \in lk) # (k \in rk)
          \/ (k \in lk /\ k \in rk /\ local[k] # remote[k])}

----------------------------------------------------------------------------
\* Resource transport (client.py, _handle_response and the verb methods)

DefaultCodes == {200, 201, 204}
DeleteCodes == {200, 204}

\* _handle_response: TRUE when the status is one of the expected codes
Succeeds(status, expected_codes) == status \in expected_codes

\* str(SCIMError): "[<status>] <detail or 'Unknown error'>", as string pieces
ErrorStr(status, detail) ==
    <<"[", ToString(status), "] ", IF detail = None THEN "Unknown error" ELSE detail>>

\* the message of an exception raised for a failed response
ResponseError(status) == ErrorStr(status, "rejected")

\* one entry of the call log
Call(method, path, id, body, status) ==
    [method |-> method, path |-> path, id |-> id, body |-> body, status |-> status]

Mutating(c) == c.method \in {"POST", "PUT", "PATCH", "DELETE"}

----------------------------------------------------------------------------
\* The directory (the remote end of the calls)

\* the opaque cursor for an offset; the empty string stands for "from the start"
Tok(n) == IF n = 0 THEN "" ELSE ToString(n)
OffsetOf(tok, n) == CHOOSE k \in 0..n : Tok(k) = tok

\* a resource as the directory stores and returns it
StoredUser(body, id) ==
    ("id" :> id) @@ ("meta" :> "User") @@ ("schemas" :> <<USER_SCHEMA>>) @@ body
StoredGroup(body, id) ==
    ("id" :> id) @@ ("meta" :> "Group") @@ ("schemas" :> <<GROUP_SCHEMA>>) @@ body

\* GET on a listing path: one page of at most min(count, cap) items; the
\* continuation cursor is spelled nextCursor or nextcursor, and the last page
\* carries none or an empty one
DirPageAs(items, params, cap, spelling, end_mark) ==
    LET n == Len(items)
        off == OffsetOf(Get(params, "cursor", ""), n)
        end == Min(n, off + Min(params["count"], cap))
    IN ("Resources" :> SubSeq(items, off + 1, end))
       @@ ("totalResults" :> n)
       @@ (IF end < n THEN (spelling :> Tok(end))
           ELSE Opt(spelling, "", end_mark = "empty"))

\* the directory of the sync runs: short pages, nextCursor, absent at the end
DirPage(items, params) == DirPageAs(items, params, PageCap, "nextCursor", "absent")

\* the index of the item whose field key is v, 0 when there is none
IndexOf(items, key, v) ==
    IF \E i \in DOMAIN items : items[i][key] = v
    THEN CHOOSE i \in DOMAIN items : items[i][key] = v
    ELSE 0

RemoveAt(s, i) == SubSeq(s, 1, i - 1) \o SubSeq(s, i + 1, Len(s))

\* statuses the directory can answer a call with: any call may be rejected;
\* a create of a userName / displayName that exists is always a conflict
CreateStatuses(items, key, v) ==
    IF IndexOf(items, key, v) # 0 THEN {409} ELSE {201, 400}
ReplaceStatuses == {200, 400}
PatchStatuses == {204, 400}
DeleteStatuses == {204, 400}
GetStatuses == {200, 400}

----------------------------------------------------------------------------
\* Pagination iterator (client.py, _paginate) and ListResponse.from_dict

\* wrong variant: only the nextCursor spelling is read
NextCursorCamelOnly(data) ==
    LET nc == Get(data, "nextCursor", None)
    IN IF nc = "" THEN None ELSE nc

\* ListResponse.from_dict: the continuation cursor, None when absent or empty
NextCursor(data) ==
    LET a == Get(data, "nextCursor", None)
        nc == IF a # None /\ a # "" THEN a ELSE Get(data, "nextcursor", None)
    IN IF nc = "" THEN None ELSE nc

PgInit == [is_first |-> TRUE, cursor |-> None, items |-> <<>>]

\* wrong variant: the first fetch never carries a cursor
PageParamsFirstNoCursor(filter, is_first, cursor) ==
    Opt("filter", filter, filter # <<>>)
    @@ ("count" :> MAX_PAGE_SIZE)
    @@ (IF is_first THEN EmptyDict ELSE ("cursor" :> cursor))

\* wrong variant: the first fetch always carries the empty cursor
PageParamsAlwaysCursor(filter, is_first, cursor) ==
    Opt("filter", filter, filter # <<>>)
    @@ ("count" :> MAX_PAGE_SIZE)
    @@ ("cursor" :> IF is_first THEN "" ELSE cursor)

\* the query parameters of a fetch of _paginate; no filter is the empty tuple
PageParams(filter, is_first, cursor) ==
    Opt("filter", filter, filter # <<>>)
    @@ ("count" :> MAX_PAGE_SIZE)
    @@ (IF is_first
        THEN Opt("cursor", "", filter = <<>>)
        ELSE ("cursor" :> cursor))

\* one iteration of the while loop of _paginate on `items` of the directory:
\* the page is fetched and parsed, its resources are yielded
PageFetch(items, filter) ==
    LET data == DirPage(items, PageParams(filter, pg.is_first, pg.cursor))
    IN [is_first |-> FALSE,
        cursor |-> NextCursor(data),
        items |-> pg.items \o data["Resources"]]

\* the parameters of every fetch _paginate makes until the last page
RECURSIVE Fetches(_, _, _, _)
Fetches(items, filter, is_first, cursor) ==
    LET params == PageParams(filter, is_first, cursor)
        nc == NextCursor(DirPage(items, params))
    IN <<params>> \o (IF nc = None THEN <<>> ELSE Fetches(items, filter, FALSE, nc))

\* `{key(x): x for x in items}`: first occurrence fixes the place, last the value
Put(d, x, key) ==
    LET i == IndexOf(d, key, x[key])
    IN IF i = 0 THEN Append(d, x) ELSE [d EXCEPT ![i] = x]

RECURSIVE KeyedBy(_, _, _)
KeyedBy(d, items, key) ==
    IF items = <<>> THEN d ELSE KeyedBy(Put(d, Head(items), key), Tail(items), key)

----------------------------------------------------------------------------
\* Reconciliation engine: the flags of the four public operations

UserApis == {"sync_users", "full_sync_users"}
GroupApis == {"sync_groups", "full_sync_groups"}

\* wrong variant: full_sync_users does not pass allow_delete on
AllowDeleteDropped == FALSE
\* sync_users / sync_groups pass allow_delete=False
AllowDelete == api \in {"full_sync_users", "full_sync_groups"} /\ allow_delete_arg
\* wrong variant: removals are computed whatever the operation
AllowRemoveAlways == TRUE
\* wrong variant: full_sync_groups does not ask for removals
AllowRemoveNever == FALSE
\* sync_groups passes allow_remove_members=False, full_sync_groups True
AllowRemoveMembers == api = "full_sync_groups"
\* wrong variant: the dry_run flag is not consulted
IssueCallsAlways == TRUE
\* `if not dry_run:` in front of every mutating call
IssueCalls == ~dry_run

\* SyncResult()
ResultInit ==
    [created |-> <<>>, updated |-> <<>>, deleted |-> <<>>, unchanged |-> <<>>,
     errors |-> <<>>, details |-> EmptyDict]

\* wrong variant: the error is recorded where it is raised and again where
\* it is caught
RecordErrorTwice(res, name, msg) ==
    [res EXCEPT !.errors = Append(Append(@, <<name, ": ">> \o msg),
                                  <<name, ": ">> \o msg)]
\* wrong variant: the item is listed as created before its calls are made
RecordErrorAfterListing(res, name, msg) ==
    [res EXCEPT !.errors = Append(@, <<name, ": ">> \o msg),
                !.created = Append(@, name)]
\* `except Exception as e: result.errors.append(f"{name}: {e}")`
RecordError(res, name, msg) ==
    [res EXCEPT !.errors = Append(@, <<name, ": ">> \o msg)]

\* result.details[name] = d
SetDetail(res, name, d) == [res EXCEPT !.details = (name :> d) @@ @]

\* where the run goes when the loop over the desired items is over
AfterLoop(snapshot) ==
    IF AllowDelete /\ Len(snapshot) > 0 THEN "delete" ELSE "done"

\* where the run goes when the listings are complete
AfterListing(desired, snapshot) ==
    IF Len(desired) > 0 THEN "loop" ELSE AfterLoop(snapshot)

\* wrong variant: the failed fetch is swallowed and an empty outcome returned
AfterFailedFetchSwallowed == "done"
\* a failed page fetch raises out of the generator and out of the sync
AfterFailedFetch == "raised"

\* wrong variant: the test on the desired names is inverted
ShouldDeleteDesired(name, id, local_names) == name \in local_names /\ id # NoId
\* wrong variant: the desired names are not consulted
ShouldDeleteAny(name, id, local_names) == id # NoId
\* `if name not in local_names and user.id:` of the delete phase
ShouldDelete(name, id, local_names) == name \notin local_names /\ id # NoId

\* wrong variant: an item's failure ends the loop (the try wraps the whole loop)
AdvanceAbort(n, snapshot) ==
    IF Len(result'.errors) > Len(result.errors)
    THEN pc' = "done" /\ idx' = 1
    ELSE IF idx < n
         THEN pc' = pc /\ idx' = idx + 1
         ELSE pc' = AfterLoop(snapshot) /\ idx' = 1

\* `for x in desired:` moves on, or the loop is over
Advance(n, snapshot) ==
    IF idx < n
    THEN pc' = pc /\ idx' = idx + 1
    ELSE pc' = AfterLoop(snapshot) /\ idx' = 1

----------------------------------------------------------------------------
\* The request (scim_cli.py cmd_user_sync, scim_api.py sync_users)

\* `users = [build_user(u) for u in local_users]`: every record is constructed
\* and validated before the sync is called; a SCIMValidationError leaves the
\* comprehension and the command
BuildUsers ==
    /\ pc = "build"
    /\ pc' = IF \A i \in DOMAIN users : UserValid(users[i])
             THEN "list_users"
             ELSE "invalid"
    /\ UNCHANGED <<req, ret, pages, api, allow_delete_arg, dry_run, users, groups, members_map,
                   user_ids, dirUsers, dirGroups, dirMembers, nextId, dir0, run,
                   first, pg, idc_users, idc_groups, idx, result, calls>>

----------------------------------------------------------------------------
\* Baseline listing: list_users() / list_groups() consumed page by page

\* one page of list_users(); a failed fetch propagates out of the sync
ListUsersPage ==
    /\ pc = "list_users"
    /\ \E status \in GetStatuses :
        /\ calls' = Append(calls, Call("GET", "/Users", NoId, PageParams(<<>>, pg.is_first, pg.cursor), status))
        /\ IF ~Succeeds(status, DefaultCodes)
           THEN pc' = AfterFailedFetch /\ UNCHANGED <<pg, idc_users, idx>>
           ELSE LET p == PageFetch(dirUsers, <<>>)
                    listed == [i \in DOMAIN p.items |-> UserFromDict(p.items[i])]
                    snap == IF api \in UserApis
                            THEN KeyedBy(<<>>, listed, "userName")
                            ELSE listed
                IN IF p.cursor # None
                   THEN pg' = p /\ UNCHANGED <<pc, idc_users, idx>>
                   ELSE /\ pg' = PgInit
                        /\ idc_users' = snap
                        /\ idx' = 1
                        /\ pc' = IF api \in UserApis
                                 THEN AfterListing(users, snap)
                                 ELSE AfterListing(groups, idc_groups)
    /\ UNCHANGED <<req, ret, pages, api, allow_delete_arg, dry_run, users, groups, members_map,
                   user_ids, dirUsers, dirGroups, dirMembers, nextId, dir0, run,
                   first, idc_groups, result>>

----------------------------------------------------------------------------
\* User sync (_sync_users_impl)

\* wrong variant: the assignment also overwrites the record's externalId
WithIdAndExternalId(user, id) == [user EXCEPT !.id = id, !.externalId = "x"]
\* user.id = idc_user.id: the desired record takes the actual record's id
WithId(user, id) == [user EXCEPT !.id = id]

\* wrong variant: the loop consults the directory as it is now
ActualUsersLive ==
    KeyedBy(<<>>, [i \in DOMAIN dirUsers |-> UserFromDict(dirUsers[i])], "userName")
\* the dict the loop consults: the snapshot built before the loop
ActualUsers == idc_users

\* the body of `for user in users:` for users[idx]
SyncUserItem ==
    /\ pc = "loop" /\ api \in UserApis
    /\ LET user == users[idx]
           name == user.userName
           pos == IndexOf(ActualUsers, "userName", name)
       IN IF pos # 0
          THEN LET idc_user == ActualUsers[pos]
                   changed_fields == DiffDict(UserToDict(user, FALSE, FALSE),
                                              UserToDict(idc_user, FALSE, FALSE))
                   upd == SetDetail([result EXCEPT !.updated = Append(@, name)], name,
                                    [fields |-> changed_fields, id |-> idc_user.id])
               IN IF changed_fields = {}
                  THEN /\ result' = [result EXCEPT !.unchanged = Append(@, name)]
                       /\ UNCHANGED <<users, dirUsers, nextId, calls>>
                  ELSE IF ~IssueCalls
                  THEN /\ result' = upd
                       /\ UNCHANGED <<users, dirUsers, nextId, calls>>
                  ELSE LET u2 == WithId(user, idc_user.id)
                           body == UserToDict(u2, TRUE, FALSE)
                       IN /\ users' = [users EXCEPT ![idx] = u2]
                          /\ nextId' = nextId
                          /\ IF u2.id = NoId
                             THEN /\ result' = RecordError(result, name,
                                                  <<"User id is required for update">>)
                                  /\ UNCHANGED <<dirUsers, calls>>
                             ELSE \E status \in ReplaceStatuses :
                                  /\ calls' = Append(calls,
                                        Call("PUT", "/Users", u2.id, body, status))
                                  /\ IF Succeeds(status, DefaultCodes)
                                     THEN /\ dirUsers' = [dirUsers EXCEPT
                                               ![IndexOf(dirUsers, "id", u2.id)] =
                                                   StoredUser(body, u2.id)]
                                          /\ result' = upd
                                     ELSE /\ result' = RecordError(result, name,
                                                           ResponseError(status))
                                          /\ UNCHANGED dirUsers
          ELSE IF ~IssueCalls
          THEN /\ result' = [result EXCEPT !.created = Append(@, name)]
               /\ UNCHANGED <<users, dirUsers, nextId, calls>>
          ELSE LET body == UserToDict(user, FALSE, TRUE)
               IN \E status \in CreateStatuses(dirUsers, "userName", name) :
                  /\ calls' = Append(calls, Call("POST", "/Users", NoId, body, status))
                  /\ users' = users
                  /\ IF Succeeds(status, DefaultCodes)
                     THEN LET created == UserFromDict(StoredUser(body, nextId))
                          IN /\ dirUsers' = Append(dirUsers, StoredUser(body, nextId))
                             /\ nextId' = nextId + 1
                             /\ result' = [SetDetail(result, name, [id |-> created.id])
                                             EXCEPT !.created = Append(@, name)]
                     ELSE /\ result' = RecordError(result, name, ResponseError(status))
                          /\ UNCHANGED <<dirUsers, nextId>>
    /\ Advance(Len(users), idc_users)
    /\ UNCHANGED <<req, ret, pages, api, allow_delete_arg, dry_run, groups, members_map, user_ids,
                   dirGroups, dirMembers, dir0, run, first, pg, idc_users, idc_groups>>

\* the body of `for name, user in idc_users.items():` for the entry idx
DeleteUserItem ==
    /\ pc = "delete" /\ api \in UserApis
    /\ LET user == idc_users[idx]
           name == user.userName
           local_names == {users[i].userName : i \in DOMAIN users}
           del == SetDetail([result EXCEPT !.deleted = Append(@, name)], name,
                            [id |-> user.id])
       IN IF ShouldDelete(name, user.id, local_names)
          THEN IF ~IssueCalls
               THEN result' = del /\ UNCHANGED <<dirUsers, dirMembers, calls>>
               ELSE \E status \in DeleteStatuses :
                    /\ calls' = Append(calls,
                          Call("DELETE", "/Users", user.id, EmptyDict, status))
                    /\ IF Succeeds(status, DeleteCodes)
                       THEN /\ dirUsers' = RemoveAt(dirUsers,
                                               IndexOf(dirUsers, "id", user.id))
                            /\ dirMembers' = [g \in DOMAIN dirMembers |->
                                                dirMembers[g] \ {user.id}]
                            /\ result' = del
                       ELSE /\ result' = RecordError(result, name, ResponseError(status))
                            /\ UNCHANGED <<dirUsers, dirMembers>>
          ELSE UNCHANGED <<result, dirUsers, dirMembers, calls>>
    /\ IF idx < Len(idc_users)
       THEN pc' = pc /\ idx' = idx + 1
       ELSE pc' = "done" /\ idx' = 1
    /\ UNCHANGED <<req, ret, pages, api, allow_delete_arg, dry_run, users, groups, members_map,
                   user_ids, dirGroups, nextId, dir0, run, first, pg, idc_users,
                   idc_groups>>

\* the caller invokes the same user sync again with the same desired list
Rerun ==
    /\ pc = "done" /\ run = 1 /\ api \in UserApis
    /\ run' = 2
    /\ first' = result
    /\ result' = ResultInit
    /\ calls' = <<>>
    /\ pc' = "list_users"
    /\ pg' = PgInit
    /\ idc_users' = <<>>
    /\ idx' = 1
    /\ dir0' = [users |-> dirUsers, groups |-> dirGroups, members |-> dirMembers]
    /\ UNCHANGED <<req, ret, pages, api, allow_delete_arg, dry_run, users, groups, members_map,
                   user_ids, dirUsers, dirGroups, dirMembers, nextId, idc_groups>>

----------------------------------------------------------------------------
\* Group membership patches (add_group_members, remove_group_members)

\* range(start, stop, step)
RECURSIVE RangeFrom(_, _, _)
RangeFrom(i, stop, step) ==
    IF i >= stop THEN <<>> ELSE <<i>> \o RangeFrom(i + step, stop, step)

\* wrong variant: the list is sent whole
BatchesUnsplit(ids) == <<ids>>
\* `for i in range(0, len(user_ids), MAX_PAGE_SIZE): batch = user_ids[i:i + MAX_PAGE_SIZE]`
Batches(ids) ==
    LET starts == RangeFrom(0, Len(ids), MAX_PAGE_SIZE)
    IN [k \in DOMAIN starts |->
          SubSeq(ids, starts[k] + 1, Min(starts[k] + MAX_PAGE_SIZE, Len(ids)))]

\* PatchOp.to_dict
PatchOpDict(operations) ==
    ("schemas" :> <<PATCH_SCHEMA>>) @@ ("Operations" :> operations)

\* the body of one add patch: one operation carrying the whole batch
AddBody(batch) ==
    PatchOpDict(<<("op" :> "add") @@ ("path" :> "members")
                  @@ ("value" :> [i \in DOMAIN batch |-> ("value" :> batch[i])])>>)

\* the body of one remove patch: one operation per member of the batch
RemoveBody(batch) ==
    PatchOpDict([i \in DOMAIN batch |->
                   ("op" :> "remove") @@ ("path" :> <<"members[value eq ", batch[i], "]">>)])

\* the patch calls of add_group_members(group_id, user_ids), in order
AddPatches(group_id, ids) ==
    IF ids = <<>> THEN <<>>
    ELSE LET b == Batches(ids)
         IN [k \in DOMAIN b |-> Call("PATCH", "/Groups", group_id, AddBody(b[k]), 204)]

\* the patch calls of remove_group_members(group_id, user_ids), in order
RemovePatches(group_id, ids) ==
    IF ids = <<>> THEN <<>>
    ELSE LET b == Batches(ids)
         IN [k \in DOMAIN b |-> Call("PATCH", "/Groups", group_id, RemoveBody(b[k]), 204)]

\* the members a patch operation names
OpMembers(op) ==
    IF op["op"] = "add"
    THEN {op["value"][i]["value"] : i \in DOMAIN op["value"]}
    ELSE {op["path"][2]}

\* the directory applies the operations of one patch body, in order, to a
\* member set: a member is in the result when the last operation naming it
\* adds it, or when no operation names it and it was a member
ApplyOps(m, ops) ==
    LET touched == UNION {OpMembers(ops[i]) : i \in DOMAIN ops}
        last(x) == CHOOSE i \in DOMAIN ops :
                      /\ x \in OpMembers(ops[i])
                      /\ \A j \in DOMAIN ops : x \in OpMembers(ops[j]) => j <= i
    IN {x \in m \cup touched : x \in touched => ops[last(x)]["op"] = "add"}

\* the directory's memberships after the successful calls cs, in order
RECURSIVE ApplyCalls(_, _)
ApplyCalls(members, cs) ==
    IF cs = <<>> THEN members
    ELSE LET c == Head(cs)
         IN ApplyCalls(IF c.method = "PATCH" /\ c.id \in DOMAIN members
                       THEN [members EXCEPT ![c.id] = ApplyOps(@, c.body["Operations"])]
                       ELSE members,
                       Tail(cs))

\* wrong variant: the calls planned after the rejected one are issued as well
IssuedPastFailure(plan, f) ==
    [i \in DOMAIN plan |-> IF i = f THEN [plan[i] EXCEPT !.status = 400] ELSE plan[i]]
\* the calls actually issued of a planned sequence when call f is rejected
\* (f = 0: none is); nothing after the rejected call is issued
Issued(plan, f) ==
    IF f = 0 THEN plan
    ELSE SubSeq(plan, 1, f - 1) \o <<[plan[f] EXCEPT !.status = 400]>>

Answered(plan, f) == IF f = 0 THEN plan ELSE SubSeq(plan, 1, f - 1)

----------------------------------------------------------------------------
\* Membership lookup (is_user_in_group, get_user_groups)

\* f'members.value eq "{user_id}"'
MemberFilter(user_id) == <<"members.value eq ", user_id>>

\* the directory's groups that contain the member the filter names
DirGroupsMatching(filter) ==
    SelectSeq(dirGroups, LAMBDA g : filter[2] \in dirMembers[g["id"]])

\* the GET calls of get_user_groups(user_id): every page of the filtered listing
MemberQueries(user_id) ==
    LET fs == Fetches(DirGroupsMatching(MemberFilter(user_id)),
                      MemberFilter(user_id), TRUE, None)
    IN [k \in DOMAIN fs |-> Call("GET", "/Groups", NoId, fs[k], 200)]

\* is_user_in_group(group_id, user_id)
IsUserInGroup(group_id, user_id) ==
    \E g \in Range(DirGroupsMatching(MemberFilter(user_id))) :
        GroupFromDict(g).id = group_id

RECURSIVE Concat(_)
Concat(ss) == IF ss = <<>> THEN <<>> ELSE Head(ss) \o Concat(Tail(ss))

\* list(a_set): the elements in some order
Orderings(S) == {f \in [1..Cardinality(S) -> S] : Range(f) = S}

----------------------------------------------------------------------------
\* Group sync (_sync_groups_impl)

\* one page of list_groups(); a failed fetch propagates out of the sync
ListGroupsPage ==
    /\ pc = "list_groups"
    /\ \E status \in GetStatuses :
        /\ calls' = Append(calls, Call("GET", "/Groups", NoId,
                                       PageParams(<<>>, pg.is_first, pg.cursor), status))
        /\ IF ~Succeeds(status, DefaultCodes)
           THEN pc' = AfterFailedFetch /\ UNCHANGED <<pg, idc_groups>>
           ELSE LET p == PageFetch(dirGroups, <<>>)
                    listed == [i \in DOMAIN p.items |-> GroupFromDict(p.items[i])]
                IN IF p.cursor # None
                   THEN pg' = p /\ UNCHANGED <<pc, idc_groups>>
                   ELSE /\ pg' = PgInit
                        /\ idc_groups' = KeyedBy(<<>>, listed, "displayName")
                        /\ pc' = "list_users"
    /\ UNCHANGED <<req, ret, pages, api, allow_delete_arg, dry_run, users, groups, members_map,
                   user_ids, dirUsers, dirGroups, dirMembers, nextId, dir0, run,
                   first, idc_users, idx, result>>

\* user_id_map = {u.userName: u.id for u in idc_users if u.id}, as its entries
UserIdMap == KeyedBy(<<>>, SelectSeq(idc_users, LAMBDA u : u.id # NoId), "userName")

\* id_to_name.get(uid, "?")
IdToName(uid) ==
    LET m == KeyedBy(<<>>, SelectSeq(idc_users, LAMBDA u : u.id # NoId), "id")
        i == IndexOf(m, "id", uid)
    IN IF i = 0 THEN "?" ELSE m[i].userName

\* the desired member names of a group that resolve, as ids / that do not
LocalMemberIds(name) ==
    {UserIdMap[IndexOf(UserIdMap, "userName", m)].id :
        m \in {x \in Range(Get(members_map, name, <<>>)) :
                 IndexOf(UserIdMap, "userName", x) # 0}}
\* wrong variant: unresolved names are dropped without a trace
SkippedNone(name) == <<>>
SkippedMembers(name) ==
    SelectSeq(Get(members_map, name, <<>>),
              LAMBDA m : IndexOf(UserIdMap, "userName", m) = 0)

\* [{"id": uid, "userName": id_to_name.get(uid, "?")} for uid in ids]
Annotated(ids) == [i \in DOMAIN ids |-> [id |-> ids[i], userName |-> IdToName(ids[i])]]

\* wrong variant: the lookups are made for the first desired group only
GroupQueriesOnce ==
    IF idx = 1
    THEN Concat([i \in DOMAIN UserIdMap |-> MemberQueries(UserIdMap[i].id)])
    ELSE <<>>
\* the membership queries made for one existing group: one lookup per known user
GroupQueries == Concat([i \in DOMAIN UserIdMap |-> MemberQueries(UserIdMap[i].id)])

\* current_members of an existing group
CurrentMembers(group_id) ==
    {UserIdMap[i].id : i \in {j \in DOMAIN UserIdMap :
                                 IsUserInGroup(group_id, UserIdMap[j].id)}}

\* wrong variant: the current members are not subtracted
ToAddAll(name, group_id) == LocalMemberIds(name)
ToAdd(name, group_id) == LocalMemberIds(name) \ CurrentMembers(group_id)
ToRemove(name, group_id) ==
    IF AllowRemoveMembers THEN CurrentMembers(group_id) \ LocalMemberIds(name) ELSE {}

\* wrong variant: the preview of a created group leaves the skipped names out
DryCreatedGroupDetailNoSkipped(add_order, skipped_members) ==
    [added |-> Annotated(add_order)]
\* details of a created group in a dry run: no id is known
DryCreatedGroupDetail(add_order, skipped_members) ==
    [added |-> Annotated(add_order), skipped |-> skipped_members]

\* the body of `for group in groups:` for groups[idx]
SyncGroupItem ==
    /\ pc = "loop" /\ api \in GroupApis
    /\ LET group == groups[idx]
           name == group.displayName
           skipped_members == SkippedMembers(name)
           pos == IndexOf(idc_groups, "displayName", name)
       IN IF pos # 0
          THEN LET idc_group == idc_groups[pos]
               IN IF idc_group.id = NoId
                  THEN /\ result' = RecordError(result, name, <<"group id is empty">>)
                       /\ UNCHANGED <<calls, dirGroups, dirMembers, nextId>>
                  ELSE \E add_order \in Orderings(ToAdd(name, idc_group.id)),
                          rem_order \in Orderings(ToRemove(name, idc_group.id)) :
                       LET changes == add_order # <<>> \/ rem_order # <<>>
                           plan == GroupQueries
                                   \o (IF changes /\ IssueCalls
                                       THEN AddPatches(idc_group.id, add_order)
                                            \o RemovePatches(idc_group.id, rem_order)
                                       ELSE <<>>)
                           done == IF ~changes
                                   THEN LET r == [result EXCEPT !.unchanged = Append(@, name)]
                                        IN IF skipped_members # <<>>
                                           THEN SetDetail(r, name,
                                                  [id |-> idc_group.id,
                                                   skipped |-> skipped_members])
                                           ELSE r
                                   ELSE SetDetail(
                                          [result EXCEPT !.updated = Append(@, name)], name,
                                          [id |-> idc_group.id,
                                           added |-> Annotated(add_order),
                                           removed |-> Annotated(rem_order),
                                           skipped |-> skipped_members])
                       IN \E f \in 0..Len(plan) :
                          /\ calls' = calls \o Issued(plan, f)
                          /\ dirMembers' = ApplyCalls(dirMembers, Answered(plan, f))
                          /\ result' = IF f = 0 THEN done
                                       ELSE RecordError(result, name, ResponseError(400))
                          /\ UNCHANGED <<dirGroups, nextId>>
          ELSE \E add_order \in Orderings(LocalMemberIds(name)) :
               IF ~IssueCalls
               THEN /\ result' = [SetDetail(result, name,
                                     DryCreatedGroupDetail(add_order, skipped_members))
                                    EXCEPT !.created = Append(@, name)]
                    /\ UNCHANGED <<calls, dirGroups, dirMembers, nextId>>
               ELSE LET body == GroupToDict(group, TRUE)
                    IN \E status \in CreateStatuses(dirGroups, "displayName", name) :
                       LET post == Call("POST", "/Groups", NoId, body, status)
                       IN IF ~Succeeds(status, DefaultCodes)
                          THEN /\ calls' = Append(calls, post)
                               /\ result' = RecordError(result, name, ResponseError(status))
                               /\ UNCHANGED <<dirGroups, dirMembers, nextId>>
                          ELSE LET new_group == GroupFromDict(StoredGroup(body, nextId))
                                   plan == IF new_group.id # NoId /\ add_order # <<>>
                                           THEN AddPatches(new_group.id, add_order)
                                           ELSE <<>>
                               IN \E f \in 0..Len(plan) :
                                  /\ calls' = Append(calls, post) \o Issued(plan, f)
                                  /\ dirGroups' = Append(dirGroups, StoredGroup(body, nextId))
                                  /\ dirMembers' = ApplyCalls((nextId :> {}) @@ dirMembers,
                                                              Answered(plan, f))
                                  /\ nextId' = nextId + 1
                                  /\ result' =
                                       IF f = 0
                                       THEN [SetDetail(result, name,
                                               [id |-> new_group.id,
                                                added |-> Annotated(add_order),
                                                skipped |-> skipped_members])
                                             EXCEPT !.created = Append(@, name)]
                                       ELSE RecordError(result, name, ResponseError(400))
    /\ Advance(Len(groups), idc_groups)
    /\ UNCHANGED <<req, ret, pages, api, allow_delete_arg, dry_run, users, groups, members_map,
                   user_ids, dirUsers, dir0, run, first, pg, idc_users, idc_groups>>

\* the body of `for name, group in idc_groups.items():` for the entry idx
DeleteGroupItem ==
    /\ pc = "delete" /\ api \in GroupApis
    /\ LET group == idc_groups[idx]
           name == group.displayName
           local_names == {groups[i].displayName : i \in DOMAIN groups}
           del == SetDetail([result EXCEPT !.deleted = Append(@, name)], name,
                            [id |-> group.id])
       IN IF ShouldDelete(name, group.id, local_names)
          THEN IF ~IssueCalls
               THEN result' = del /\ UNCHANGED <<dirGroups, dirMembers, calls>>
               ELSE \E status \in DeleteStatuses :
                    /\ calls' = Append(calls,
                          Call("DELETE", "/Groups", group.id, EmptyDict, status))
                    /\ IF Succeeds(status, DeleteCodes)
                       THEN /\ dirGroups' = RemoveAt(dirGroups,
                                                IndexOf(dirGroups, "id", group.id))
                            /\ dirMembers' = [g \in DOMAIN dirMembers \ {group.id} |->
                                                dirMembers[g]]
                            /\ result' = del
                       ELSE /\ result' = RecordError(result, name, ResponseError(status))
                            /\ UNCHANGED <<dirGroups, dirMembers>>
          ELSE UNCHANGED <<result, dirGroups, dirMembers, calls>>
    /\ IF idx < Len(idc_groups)
       THEN pc' = pc /\ idx' = idx + 1
       ELSE pc' = "done" /\ idx' = 1
    /\ UNCHANGED <<req, ret, pages, api, allow_delete_arg, dry_run, users, groups, members_map,
                   user_ids, dirUsers, nextId, dir0, run, first, pg, idc_users,
                   idc_groups>>

----------------------------------------------------------------------------
\* Inputs and initial directory

SeqsUpTo(S, n) == UNION {[1..k -> S] : k \in 0..n}

\* attribute values a record is given: <<displayName, active>>
DesiredAttrs == {<<None, None>>, <<"D", "true">>}
ActualAttrs == {<<None, None>>, <<"D", None>>, <<"D", "true">>}

DesiredUsers == {MkUser(n, a[1], a[2]) : n \in UserNames, a \in DesiredAttrs}

\* input records that break the one-email restriction: no email, or two
InvalidEmails(n) ==
    {<<>>, <<[value |-> n, type |-> "work", primary |-> "true"],
             [value |-> n, type |-> "home", primary |-> None]>>}
InvalidUsers ==
    UNION {{[MkUser(n, None, None) EXCEPT !.emails = es] : es \in InvalidEmails(n)} :
             n \in UserNames}

NameOrder == <<"a", "b">>
InitUserId(n) == CHOOSE i \in DOMAIN NameOrder : NameOrder[i] = n
GroupOrder == <<"g1", "g2">>
InitGroupId(n) == Len(NameOrder) + CHOOSE i \in DOMAIN GroupOrder : GroupOrder[i] = n

\* the directory's users: for each name absent, or stored with some attributes
UserDir(f) ==
    LET present == SelectSeq(NameOrder, LAMBDA n : f[n].present)
    IN [i \in DOMAIN present |->
          LET n == present[i]
          IN StoredUser(UserToDict(MkUser(n, f[n].attrs[1], f[n].attrs[2]), FALSE, TRUE),
                        InitUserId(n))]

\* the first name is stored with any of the attribute values, the others plain
UserPresence(n) ==
    {[present |-> FALSE, attrs |-> <<None, None>>]}
    \cup {[present |-> TRUE, attrs |-> a] :
            a \in IF n = NameOrder[1] THEN ActualAttrs ELSE {<<None, None>>}}

InitUsers ==
    /\ api \in UserApis
    /\ allow_delete_arg \in (IF api = "full_sync_users" THEN BOOLEAN ELSE {FALSE})
    /\ dry_run \in BOOLEAN
    /\ users \in SeqsUpTo(DesiredUsers \cup InvalidUsers, MaxDesired)
    /\ groups = <<>>
    /\ members_map = EmptyDict
    /\ user_ids = <<>>
    /\ \E f \in [UserNames -> UNION {UserPresence(n) : n \in UserNames}] :
         /\ \A n \in UserNames : f[n] \in UserPresence(n)
         /\ dirUsers = UserDir(f)
    /\ dirGroups = <<>>
    /\ dirMembers = EmptyDict
    /\ nextId = Len(NameOrder) + Len(GroupOrder) + 1
    /\ dir0 = [users |-> dirUsers, groups |-> dirGroups, members |-> dirMembers]
    /\ pc = "build"
    /\ run = 1
    /\ first = ResultInit
    /\ pg = PgInit
    /\ idc_users = <<>>
    /\ idc_groups = <<>>
    /\ idx = 1
    /\ result = ResultInit
    /\ calls = <<>>
    /\ pages = <<>>
    /\ req = <<>>
    /\ ret = <<>>

\* desired member lists; "z" is the userName of no user
MemberLists == {<<>>, <<"b", "z">>, <<"b", "a">>}

\* the directory's groups: for each name absent, or stored with some members
\* (the first group with none, the first or all of the users, the others with none)
GroupPresence(n) ==
    {[present |-> FALSE, members |-> {}]}
    \cup {[present |-> TRUE, members |-> {InitUserId(NameOrder[i]) : i \in 1..k}] :
            k \in IF n = GroupOrder[1] THEN 0..Len(NameOrder) ELSE {0}}

GroupDir(f) ==
    LET present == SelectSeq(GroupOrder, LAMBDA n : f[n].present)
    IN [i \in DOMAIN present |->
          StoredGroup(GroupToDict(MkGroup(present[i]), TRUE), InitGroupId(present[i]))]

GroupMembers(f) ==
    LET ids == {InitGroupId(n) : n \in {m \in GroupNames : f[m].present}}
    IN [g \in ids |-> f[CHOOSE n \in GroupNames : InitGroupId(n) = g].members]

InitGroups ==
    /\ api \in GroupApis
    /\ allow_delete_arg \in (IF api = "full_sync_groups" THEN BOOLEAN ELSE {FALSE})
    /\ dry_run \in BOOLEAN
    /\ users = <<>>
    /\ groups \in SeqsUpTo({MkGroup(n) : n \in GroupNames}, MaxDesired)
    /\ members_map \in [{groups[i].displayName : i \in DOMAIN groups} -> MemberLists]
    /\ user_ids = <<>>
    /\ dirUsers = UserDir([n \in UserNames |-> [present |-> TRUE, attrs |-> <<None, None>>]])
    /\ \E f \in [GroupNames -> UNION {GroupPresence(n) : n \in GroupNames}] :
         /\ \A n \in GroupNames : f[n] \in GroupPresence(n)
         /\ dirGroups = GroupDir(f)
         /\ dirMembers = GroupMembers(f)
    /\ nextId = Len(NameOrder) + Len(GroupOrder) + 1
    /\ dir0 = [users |-> dirUsers, groups |-> dirGroups, members |-> dirMembers]
    /\ pc = "list_groups"
    /\ run = 1
    /\ first = ResultInit
    /\ pg = PgInit
    /\ idc_users = <<>>
    /\ idc_groups = <<>>
    /\ idx = 1
    /\ result = ResultInit
    /\ calls = <<>>
    /\ pages = <<>>
    /\ req = <<>>
    /\ ret = <<>>

\* the caller, having previewed the sync with dry_run=True and seen no error,
\* invokes the same operation live with the same arguments
RerunLive ==
    /\ pc = "done" /\ run = 1 /\ dry_run /\ result.errors = <<>>
    /\ run' = 3
    /\ dry_run' = FALSE
    /\ first' = result
    /\ result' = ResultInit
    /\ calls' = <<>>
    /\ pc' = IF api \in UserApis THEN "list_users" ELSE "list_groups"
    /\ pg' = PgInit
    /\ idc_users' = <<>>
    /\ idc_groups' = <<>>
    /\ idx' = 1
    /\ dir0' = [users |-> dirUsers, groups |-> dirGroups, members |-> dirMembers]
    /\ UNCHANGED <<req, ret, pages, api, allow_delete_arg, users, groups, members_map, user_ids,
                   dirUsers, dirGroups, dirMembers, nextId>>

Init == InitUsers \/ InitGroups

Next ==
    \/ BuildUsers
    \/ ListUsersPage
    \/ SyncUserItem
    \/ DeleteUserItem
    \/ Rerun
    \/ ListGroupsPage
    \/ SyncGroupItem
    \/ DeleteGroupItem

Spec == Init /\ [][Next]_vars

----------------------------------------------------------------------------
\* A sync previewed with dry_run=True and then run live

InitPreview == Init /\ dry_run

NextPreview ==
    \/ BuildUsers
    \/ ListUsersPage
    \/ SyncUserItem
    \/ DeleteUserItem
    \/ ListGroupsPage
    \/ SyncGroupItem
    \/ DeleteGroupItem
    \/ RerunLive

SpecPreview == InitPreview /\ [][NextPreview]_vars

----------------------------------------------------------------------------
\* add_group_members / remove_group_members called on their own

BatchApis == {"add_group_members", "remove_group_members"}

\* the patch calls the operation makes for its whole id list
BatchPlan ==
    IF api = "add_group_members"
    THEN AddPatches(InitGroupId(GroupOrder[1]), user_ids)
    ELSE RemovePatches(InitGroupId(GroupOrder[1]), user_ids)

\* wrong variant: a rejected patch is passed over and the loop goes on
AfterRejectedPatchGoOn == "batch"
\* _patch raises on a rejected patch: the exception leaves the for loop
AfterRejectedPatch == "raised"

\* one iteration of the batch loop: the patch is sent; a rejected patch raises
BatchCall ==
    /\ pc = "batch" /\ idx <= Len(BatchPlan)
    /\ \E status \in PatchStatuses :
        /\ calls' = Append(calls, [BatchPlan[idx] EXCEPT !.status = status])
        /\ IF Succeeds(status, DefaultCodes)
           THEN /\ dirMembers' = ApplyCalls(dirMembers, <<BatchPlan[idx]>>)
                /\ idx' = idx + 1
                /\ pc' = pc
           ELSE /\ pc' = AfterRejectedPatch
                /\ idx' = IF AfterRejectedPatch = "raised" THEN idx ELSE idx + 1
                /\ UNCHANGED dirMembers
    /\ UNCHANGED <<req, ret, pages, api, allow_delete_arg, dry_run, users, groups, members_map,
                   user_ids, dirUsers, dirGroups, nextId, dir0, run, first, pg,
                   idc_users, idc_groups, result>>

\* the call was made by the group sync for the group at hand: the exception
\* reaches `except Exception as e: result.errors.append(f"{name}: {e}")`
BatchCaught ==
    /\ pc = "raised" /\ api \in BatchApis
    /\ pc' = "caught"
    /\ result' = RecordError(result, GroupOrder[1], ResponseError(calls[Len(calls)].status))
    /\ UNCHANGED <<req, ret, pages, api, allow_delete_arg, dry_run, users, groups, members_map,
                   user_ids, dirUsers, dirGroups, dirMembers, nextId, dir0, run,
                   first, pg, idc_users, idc_groups, idx, calls>>

\* `if not user_ids: return`, or the loop is over
BatchReturn ==
    /\ pc = "batch" /\ idx > Len(BatchPlan)
    /\ pc' = "done"
    /\ UNCHANGED <<req, ret, pages, api, allow_delete_arg, dry_run, users, groups, members_map,
                   user_ids, dirUsers, dirGroups, dirMembers, nextId, dir0, run,
                   first, pg, idc_users, idc_groups, idx, result, calls>>

\* id lists: n distinct ids, ascending or descending
IdLists ==
    {[i \in 1..n |-> i] : n \in 0..MaxIds}
    \cup {[i \in 1..n |-> n + 1 - i] : n \in 0..MaxIds}

InitBatch ==
    /\ api \in BatchApis
    /\ allow_delete_arg = FALSE
    /\ dry_run = FALSE
    /\ users = <<>>
    /\ groups = <<>>
    /\ members_map = EmptyDict
    /\ user_ids \in IdLists
    /\ dirUsers = <<>>
    /\ dirGroups = GroupDir([n \in GroupNames |->
                               [present |-> n = GroupOrder[1], members |-> {}]])
    /\ dirMembers = (InitGroupId(GroupOrder[1]) :>
                        IF api = "add_group_members" THEN {} ELSE Range(user_ids))
    /\ nextId = Len(NameOrder) + Len(GroupOrder) + 1
    /\ dir0 = [users |-> dirUsers, groups |-> dirGroups, members |-> dirMembers]
    /\ pc = "batch"
    /\ run = 1
    /\ first = ResultInit
    /\ pg = PgInit
    /\ idc_users = <<>>
    /\ idc_groups = <<>>
    /\ idx = 1
    /\ result = ResultInit
    /\ calls = <<>>
    /\ pages = <<>>
    /\ req = <<>>
    /\ ret = <<>>

NextBatch == BatchCall \/ BatchReturn \/ BatchCaught

SpecBatch == InitBatch /\ [][NextBatch]_vars

----------------------------------------------------------------------------
\* A listing on its own: list_users() without filter, get_user_groups(user_id)

PageApis == {"list_users", "get_user_groups"}

\* the user whose groups get_user_groups lists
PageUserId == InitUserId(NameOrder[1])
PageFilter == IF api = "get_user_groups" THEN MemberFilter(PageUserId) ELSE <<>>
PagePath == IF api = "get_user_groups" THEN "/Groups" ELSE "/Users"
\* the resources the directory has for the listing, in server order
PageItems ==
    IF api = "get_user_groups" THEN DirGroupsMatching(PageFilter) ELSE dirUsers

\* what a list response says beside its resources
PageHead(data) == [k \in DOMAIN data \ {"Resources"} |-> data[k]]

\* one iteration of `while True:` of _paginate: the fetch, the parse, the
\* yields; the directory serves full pages and spells the cursor as it likes
PageStep ==
    /\ pc = "page"
    /\ \E status \in GetStatuses, spelling \in {"nextCursor", "nextcursor"},
          end_mark \in {"absent", "empty"} :
        LET params == PageParams(PageFilter, pg.is_first, pg.cursor)
            data == DirPageAs(PageItems, params, MAX_PAGE_SIZE, spelling, end_mark)
            nc == NextCursor(data)
        IN /\ calls' = Append(calls, Call("GET", PagePath, NoId, params, status))
           /\ IF ~Succeeds(status, DefaultCodes)
              THEN pc' = AfterFailedFetch /\ UNCHANGED <<pg, pages>>
              ELSE /\ pages' = Append(pages, PageHead(data))
                   /\ pg' = [is_first |-> FALSE, cursor |-> nc,
                             items |-> pg.items \o data["Resources"]]
                   /\ pc' = IF nc = None THEN "done" ELSE "page"
    /\ UNCHANGED <<req, ret, api, allow_delete_arg, dry_run, users, groups,
                   members_map, user_ids, dirUsers, dirGroups, dirMembers, nextId,
                   dir0, run, first, idc_users, idc_groups, idx, result>>

\* N users, or N groups that all hold the user
ManyUsers(n) == [i \in 1..n |-> StoredUser(("userName" :> ToString(i)), i)]
ManyGroups(n) == [i \in 1..n |-> StoredGroup(("displayName" :> ToString(i)), i)]

InitPage ==
    /\ api \in PageApis
    /\ allow_delete_arg = FALSE
    /\ dry_run = FALSE
    /\ users = <<>>
    /\ groups = <<>>
    /\ members_map = EmptyDict
    /\ user_ids = <<>>
    /\ \E n \in 0..MaxItems :
         /\ dirUsers = IF api = "list_users" THEN ManyUsers(n) ELSE <<>>
         /\ dirGroups = IF api = "list_users" THEN <<>> ELSE ManyGroups(n)
         /\ dirMembers = IF api = "list_users" THEN EmptyDict
                         ELSE [g \in 1..n |-> {PageUserId}]
    /\ nextId = 1
    /\ dir0 = [users |-> dirUsers, groups |-> dirGroups, members |-> dirMembers]
    /\ pc = "page"
    /\ run = 1
    /\ first = ResultInit
    /\ pg = PgInit
    /\ idc_users = <<>>
    /\ idc_groups = <<>>
    /\ idx = 1
    /\ result = ResultInit
    /\ calls = <<>>
    /\ pages = <<>>
    /\ req = <<>>
    /\ ret = <<>>

NextPage == PageStep

SpecPage == InitPage /\ [][NextPage]_vars

----------------------------------------------------------------------------
\* A transport call on its own: _get, _post, _put, _patch, _delete answered by
\* one response

TransportOps == {"_get", "_post", "_put", "_patch", "_delete"}

\* a JSON number and a JSON string holding a numeral
JInt(n) == [type |-> "int", val |-> n]
JStr(n) == [type |-> "str", val |-> n]

\* what a call returns: None, or a parsed body
Nothing == [none |-> TRUE, body |-> EmptyDict]
Body(d) == [none |-> FALSE, body |-> d]

\* SCIMError(status, detail, scim_type, exception_request_id, timestamp)
SCIMError(status, detail, scim_type, exception_request_id, timestamp) ==
    [status |-> status, detail |-> detail, scim_type |-> scim_type,
     exception_request_id |-> exception_request_id, timestamp |-> timestamp]
NoError == SCIMError(JInt(0), None, None, None, None)

\* wrong variant: the message field of the payload is not read
SCIMErrorFromDictDetailOnly(data, status_code) ==
    SCIMError(Get(data, "status", JInt(status_code)),
              Get(data, "detail", None),
              Get(data, "scimType", None),
              Get(data, "exceptionrequestid", None),
              Get(data, "timestamp", None))

\* SCIMError.from_dict(data, status_code)
SCIMErrorFromDict(data, status_code) ==
    SCIMError(Get(data, "status", JInt(status_code)),
              IF Get(data, "detail", None) \notin {None, ""}
              THEN data["detail"]
              ELSE Get(data, "message", None),
              Get(data, "scimType", None),
              Get(data, "exceptionrequestid", None),
              Get(data, "timestamp", None))

\* SCIMError.__str__, as string pieces
SCIMErrorStr(e) ==
    <<"[", ToString(e.status.val), "] ",
      IF e.detail \in {None, ""} THEN "Unknown error" ELSE e.detail>>
    \o (IF e.exception_request_id \in {None, ""} THEN <<>>
        ELSE <<" (request: ", e.exception_request_id, ")">>)

Returned(v) == [kind |-> "return", value |-> v, exc |-> "", error |-> NoError,
                message |-> <<>>]
Raised(exc, error) ==
    [kind |-> "raise", value |-> Nothing, exc |-> exc, error |-> error,
     message |-> IF exc = "SCIMClientError" THEN SCIMErrorStr(error) ELSE <<>>]

\* a response: status_code and content, which is empty, a JSON object or
\* text that is no JSON
EmptyContent == [kind |-> "empty", text |-> "", data |-> EmptyDict]
TextContent == [kind |-> "text", text |-> "Bad Gateway", data |-> EmptyDict]
JsonContent(d) == [kind |-> "json", text |-> "{...}", data |-> d]

\* _handle_response(resp, expected_codes)
HandleResponse(resp, expected_codes) ==
    IF Succeeds(resp.status_code, expected_codes)
    THEN IF resp.status_code = 204 \/ resp.content.kind = "empty"
         THEN Returned(Nothing)
         ELSE IF resp.content.kind = "json"
         THEN Returned(Body(resp.content.data))
         ELSE Raised("JSONDecodeError", NoError)
    ELSE Raised("SCIMClientError",
                IF resp.content.kind = "json"
                THEN SCIMErrorFromDict(resp.content.data, resp.status_code)
                ELSE SCIMError(JInt(resp.status_code), resp.content.text,
                               None, None, None))

\* _get / _post / _put / _patch return what _handle_response returns; _delete
\* passes [200, 204] and returns nothing
Transport(op, resp) ==
    IF op = "_delete"
    THEN LET r == HandleResponse(resp, DeleteCodes)
         IN IF r.kind = "return" THEN Returned(Nothing) ELSE r
    ELSE HandleResponse(resp, DefaultCodes)

\* the call is made and answered
TransportCall ==
    /\ pc = "call" /\ api \in TransportOps
    /\ ret' = Transport(api, req.resp)
    /\ pc' = IF ret'.kind = "return" THEN "done" ELSE "raised"
    /\ UNCHANGED <<req, pages, api, allow_delete_arg, dry_run, users, groups,
                   members_map, user_ids, dirUsers, dirGroups, dirMembers, nextId,
                   dir0, run, first, pg, idc_users, idc_groups, idx, result, calls>>

\* nothing of the sync engine is in use
EngineIdle ==
    /\ allow_delete_arg = FALSE
    /\ dry_run = FALSE
    /\ users = <<>>
    /\ groups = <<>>
    /\ members_map = EmptyDict
    /\ user_ids = <<>>
    /\ dirUsers = <<>>
    /\ dirGroups = <<>>
    /\ dirMembers = EmptyDict
    /\ nextId = 1
    /\ dir0 = [users |-> <<>>, groups |-> <<>>, members |-> EmptyDict]
    /\ run = 1
    /\ first = ResultInit
    /\ pg = PgInit
    /\ idc_users = <<>>
    /\ idc_groups = <<>>
    /\ idx = 1
    /\ result = ResultInit
    /\ calls = <<>>
    /\ pages = <<>>

\* the statuses and the payloads the directory may answer with
ResponseCodes == {200, 201, 204, 400, 409}
ErrorPayloads ==
    {Opt("status", st, st # NoError.status)
     @@ Opt("detail", d, d # None)
     @@ Opt("message", m, m # None)
     @@ Opt("exceptionrequestid", r, r # None) :
        st \in {NoError.status, JInt(400), JInt(409), JStr(409)},
        d \in {None, "", "no such user"},
        m \in {None, "conflict"},
        r \in {None, "r-1"}}
Contents ==
    {EmptyContent, TextContent, JsonContent(("id" :> 1))}
    \cup {JsonContent(d) : d \in ErrorPayloads}

InitTransport ==
    /\ api \in TransportOps
    /\ req \in [resp : [status_code : ResponseCodes, content : Contents]]
    /\ ret = <<>>
    /\ pc = "call"
    /\ EngineIdle

NextTransport == TransportCall

SpecTransport == InitTransport /\ [][NextTransport]_vars

----------------------------------------------------------------------------
\* A call, on its own, of an operation of models.py or filters.py:
\* SCIMUser(...), SCIMUser.from_dict(data), user.to_dict(include_id,
\* for_create), Filter.eq(attr, value), L & R

\* SCIMUser(**kwargs): __post_init__ runs on the record
ConstructCall ==
    /\ pc = "call" /\ api = "SCIMUser"
    /\ ret' = IF UserValid(req.user) THEN Returned(Body(req.user))
              ELSE Raised("SCIMValidationError", NoError)
    /\ pc' = IF ret'.kind = "return" THEN "done" ELSE "raised"
    /\ UNCHANGED <<req, pages, api, allow_delete_arg, dry_run, users, groups,
                   members_map, user_ids, dirUsers, dirGroups, dirMembers, nextId,
                   dir0, run, first, pg, idc_users, idc_groups, idx, result, calls>>

\* SCIMUser.from_dict(data): the parts are built first, then the record
FromDictCall ==
    /\ pc = "call" /\ api = "SCIMUser.from_dict"
    /\ ret' = IF FromDictRaises(req.data)
              THEN Raised("SCIMValidationError", NoError)
              ELSE Returned(Body(UserFromDict(req.data)))
    /\ pc' = IF ret'.kind = "return" THEN "done" ELSE "raised"
    /\ UNCHANGED <<req, pages, api, allow_delete_arg, dry_run, users, groups,
                   members_map, user_ids, dirUsers, dirGroups, dirMembers, nextId,
                   dir0, run, first, pg, idc_users, idc_groups, idx, result, calls>>

\* user.to_dict(include_id, for_create)
ToDictCall ==
    /\ pc = "call" /\ api = "SCIMUser.to_dict"
    /\ ret' = Returned(Body(UserToDict(req.user, req.include_id, req.for_create)))
    /\ pc' = "done"
    /\ UNCHANGED <<req, pages, api, allow_delete_arg, dry_run, users, groups,
                   members_map, user_ids, dirUsers, dirGroups, dirMembers, nextId,
                   dir0, run, first, pg, idc_users, idc_groups, idx, result, calls>>

\* wrong variant: a string value is not quoted
FilterEqUnquoted(attr, value) ==
    attr \o " eq " \o (IF value.isbool THEN (IF value.b THEN "true" ELSE "false")
                       ELSE value.s)
\* Filter.eq(attr, value): the expression string; value is a bool or a str
FilterEq(attr, value) ==
    LET val_str == IF value.isbool
                   THEN (IF value.b THEN "true" ELSE "false")
                   ELSE "\"" \o value.s \o "\""
    IN attr \o " eq " \o val_str
\* FilterExpression.__and__(self, other)
FilterAnd(self, other) == "(" \o self \o ") and (" \o other \o ")"

\* Filter.eq(attr, value) called on its own
FilterEqCall ==
    /\ pc = "call" /\ api = "Filter.eq"
    /\ ret' = Returned(Body(FilterEq(req.attr, req.value)))
    /\ pc' = "done"
    /\ UNCHANGED <<req, pages, api, allow_delete_arg, dry_run, users, groups,
                   members_map, user_ids, dirUsers, dirGroups, dirMembers, nextId,
                   dir0, run, first, pg, idc_users, idc_groups, idx, result, calls>>

\* `L & R` for two expressions built by Filter.eq
FilterAndCall ==
    /\ pc = "call" /\ api = "FilterExpression.__and__"
    /\ ret' = Returned(Body(FilterAnd(FilterEq(req.self.attr, req.self.value),
                                      FilterEq(req.other.attr, req.other.value))))
    /\ pc' = "done"
    /\ UNCHANGED <<req, pages, api, allow_delete_arg, dry_run, users, groups,
                   members_map, user_ids, dirUsers, dirGroups, dirMembers, nextId,
                   dir0, run, first, pg, idc_users, idc_groups, idx, result, calls>>

\* the arguments a caller may give SCIMUser(...): the parts are constructed
\* objects, so every email and phone number has a value
LocalRecords ==
    LET SomeEmail(n) == [value |-> n, type |-> "work", primary |-> "true"]
        SomePhone(n) == [value |-> n, type |-> None]
        SomeAddress(n) == [f \in AddressFields |-> IF f = "country" THEN n ELSE None]
        SomeRole(n) == [value |-> n, type |-> None, primary |-> None]
        UpTo2(X(_)) == {<<>>, <<X("x")>>, <<X("x"), X("y")>>}
    IN {[id |-> NoId, userName |-> n, externalId |-> None, displayName |-> dn,
         active |-> None, emails |-> es, meta |-> None, phoneNumbers |-> ps,
         addresses |-> ads, roles |-> rs] :
           n \in {"", "a"}, dn \in {None, "A"}, es \in UpTo2(SomeEmail),
           ps \in UpTo2(SomePhone), ads \in UpTo2(SomeAddress),
           rs \in UpTo2(SomeRole)}

\* records to serialize: valid local records, with or without an id, a nick
\* name, a name (with or without parts) and an enterprise extension
SerializedRecords ==
    LET SomeName(given) ==
            [f \in NameFields |-> IF f = "givenName" THEN given ELSE None]
        SomeEnterprise(dept, manager) ==
            [f \in EnterpriseFields |-> IF f = "department" THEN dept ELSE None]
            @@ ("manager" :> manager)
    IN {u @@ ("nickName" :> nick) @@ ("name" :> nm) @@ ("enterprise" :> ent) :
           u \in {[v EXCEPT !.id = i] :
                     v \in {w \in LocalRecords : UserValid(w) /\ Len(w.roles) <= 1},
                     i \in {NoId, 7}},
           nick \in {None, "n"},
           nm \in {<<>>, <<SomeName(None)>>, <<SomeName("G")>>},
           ent \in {<<>>, <<SomeEnterprise(None, <<>>)>>,
                    <<SomeEnterprise("d", <<[value |-> "m", ref |-> None]>>)>>}}

\* the /Users resources a directory response may hold
ResponseDicts ==
    {Opt("userName", "a", hasName)
     @@ Opt("id", 7, hasName)
     @@ Opt("emails", es, es # <<>>)
     @@ Opt("phoneNumbers", ps, ps # <<>>)
     @@ Opt("name", ("givenName" :> "G"), hasGiven)
     @@ Opt(ENTERPRISE_USER_SCHEMA, ent, ent # EmptyDict) :
        hasName \in BOOLEAN, hasGiven \in BOOLEAN,
        es \in {<<>>, <<("value" :> "x")>>, <<("value" :> "x"), ("value" :> "y")>>,
                <<("type" :> "work")>>},
        ps \in {<<>>, <<("value" :> "1"), ("value" :> "2")>>, <<("type" :> "mobile")>>},
        ent \in {EmptyDict, ("department" :> "d"),
                 ("manager" :> ("$ref" :> "../Users/9"))}}

InitCalls ==
    LET \* the arguments a caller may give Filter.eq: a str or a bool value
        FilterArgs ==
            [attr : {"userName", "active", "members.value"},
             value : [isbool : {FALSE}, b : {FALSE}, s : {"a@b.com", "", "true"}]
                     \cup [isbool : {TRUE}, b : BOOLEAN, s : {""}]]
    IN
    /\ api \in {"SCIMUser", "SCIMUser.from_dict", "SCIMUser.to_dict", "Filter.eq",
                "FilterExpression.__and__"}
    /\ req \in IF api = "SCIMUser" THEN [user : LocalRecords]
               ELSE IF api = "SCIMUser.from_dict" THEN [data : ResponseDicts]
               ELSE IF api = "SCIMUser.to_dict"
               THEN [user : SerializedRecords, include_id : BOOLEAN,
                     for_create : BOOLEAN]
               ELSE IF api = "Filter.eq" THEN FilterArgs
               ELSE [self : FilterArgs, other : FilterArgs]
    /\ ret = <<>>
    /\ pc = "call"
    /\ EngineIdle

NextCalls ==
    \/ ConstructCall
    \/ FromDictCall
    \/ ToDictCall
    \/ FilterEqCall
    \/ FilterAndCall

SpecCalls == InitCalls /\ [][NextCalls]_vars

----------------------------------------------------------------------------
\* Properties

SyncApis == UserApis \cup GroupApis

\* a GET of a listing path (not of one resource)
ListingGet(c) == c.method = "GET" /\ c.path \in {"/Users", "/Groups"} /\ c.id = NoId
\* a GET of the baseline listing: a listing without filter
BaselineGet(c) == ListingGet(c) /\ "filter" \notin DOMAIN c.body
Failed(c) == c.status \notin {200, 201, 204}
\* a PATCH that carries a remove operation
RemovePatch(c) ==
    /\ c.method = "PATCH"
    /\ \E i \in DOMAIN c.body["Operations"] : c.body["Operations"][i]["op"] = "remove"

DirUnchanged ==
    /\ dirUsers = dir0.users
    /\ dirGroups = dir0.groups
    /\ dirMembers = dir0.members

\* C1: in a dry run of any of the four sync operations, whatever the desired
\* list, the directory and allow_delete, every remote call issued is a GET of a
\* listing (no POST, PUT, PATCH or DELETE), and the directory is as it was
\* when the run started.
C1_DryRunIssuesNoMutation ==
    (api \in SyncApis /\ dry_run) =>
        /\ \A i \in DOMAIN calls : ListingGet(calls[i]) /\ ~Mutating(calls[i])
        /\ DirUnchanged

\* a finished dry run that reports a create and a delete
C1_Witness ==
    /\ dry_run /\ pc = "done" /\ api \in SyncApis
    /\ Len(result.created) > 0
    /\ Len(result.deleted) > 0

\* C3: when a page fetch of the baseline listing fails (/Users in user sync,
\* /Groups or /Users in group sync) the failure propagates: the run ends
\* raised at that very call, no step follows (no outcome is returned), and no
\* mutating call was issued in the run; and the run is raised only so.
C3_ListingFailurePropagates ==
    api \in SyncApis =>
        /\ \A i \in DOMAIN calls :
              (BaselineGet(calls[i]) /\ Failed(calls[i])) =>
                  /\ pc = "raised"
                  /\ i = Len(calls)
        /\ pc = "raised" =>
              /\ calls # <<>>
              /\ BaselineGet(calls[Len(calls)]) /\ Failed(calls[Len(calls)])
              /\ \A i \in DOMAIN calls : ~Mutating(calls[i])
              /\ result = ResultInit
              /\ DirUnchanged
              /\ ~ENABLED Next

\* a group sync whose /Groups listing succeeded and whose /Users listing failed
\* on a later page
C3_Witness ==
    /\ pc = "raised" /\ api \in GroupApis
    /\ \E i \in DOMAIN calls : calls[i].path = "/Users" /\ ~Failed(calls[i])

Ids(items) == {items[i]["id"] : i \in DOMAIN items}

\* C7: incremental sync (sync_users, sync_groups) issues no DELETE and no
\* remove-member patch; every user, group and membership the directory held
\* when the run started is still there; the outcome's deleted list is empty
\* and so is every 'removed' list of its details.
C7_IncrementalNeverRemoves ==
    api \in {"sync_users", "sync_groups"} =>
        /\ \A i \in DOMAIN calls :
              calls[i].method # "DELETE" /\ ~RemovePatch(calls[i])
        /\ Ids(dir0.users) \subseteq Ids(dirUsers)
        /\ Ids(dir0.groups) \subseteq Ids(dirGroups)
        /\ \A g \in DOMAIN dir0.members :
              g \in DOMAIN dirMembers /\ dir0.members[g] \subseteq dirMembers[g]
        /\ result.deleted = <<>>
        /\ \A k \in DOMAIN result.details :
              "removed" \in DOMAIN result.details[k] =>
                  result.details[k].removed = <<>>

\* a finished live sync_groups that updated a group holding a member that is
\* not among its desired members, beside a group that is not desired at all
C7_Witness ==
    /\ api = "sync_groups" /\ pc = "done" /\ ~dry_run
    /\ Len(result.updated) > 0
    /\ \E k \in DOMAIN result.details :
          /\ "added" \in DOMAIN result.details[k]
          /\ "id" \in DOMAIN result.details[k]
          /\ result.details[k].id \in DOMAIN dir0.members
          /\ \E m \in dir0.members[result.details[k].id] :
                m \notin LocalMemberIds(k)
    /\ \E i \in DOMAIN idc_groups :
          idc_groups[i].displayName \notin {groups[j].displayName : j \in DOMAIN groups}

\* the mutating calls of the run, in order
MutCalls == SelectSeq(calls, Mutating)
Strip(c) == [method |-> c.method, path |-> c.path, id |-> c.id, body |-> c.body]
DesiredUserNames == {users[i].userName : i \in DOMAIN users}

\* the call the snapshot alone asks for desired user i (<<>> when none)
PlannedUserCall(i) ==
    LET pos == IndexOf(idc_users, "userName", users[i].userName)
    IN IF pos = 0
       THEN <<[method |-> "POST", path |-> "/Users", id |-> NoId,
               body |-> UserToDict(users[i], FALSE, TRUE)]>>
       ELSE IF DiffDict(UserToDict(users[i], FALSE, FALSE),
                        UserToDict(idc_users[pos], FALSE, FALSE)) = {}
       THEN <<>>
       ELSE <<[method |-> "PUT", path |-> "/Users", id |-> idc_users[pos].id,
               body |-> UserToDict([users[i] EXCEPT !.id = idc_users[pos].id],
                                   TRUE, FALSE)]>>

\* the delete the snapshot alone asks for its entry j (<<>> when none)
PlannedUserDelete(j) ==
    IF idc_users[j].userName \notin DesiredUserNames
    THEN <<[method |-> "DELETE", path |-> "/Users", id |-> idc_users[j].id,
            body |-> EmptyDict]>>
    ELSE <<>>

\* desired users / snapshot entries the run is done with
LoopDone ==
    IF pc = "loop" THEN idx - 1
    ELSE IF pc \in {"delete", "done"} THEN Len(users) ELSE 0
DeleteDone ==
    IF pc = "delete" THEN idx - 1
    ELSE IF pc = "done" /\ AllowDelete THEN Len(idc_users) ELSE 0

\* the userName a mutating /Users call is about
CallUserName(c) ==
    IF c.method = "DELETE"
    THEN idc_users[IndexOf(idc_users, "id", c.id)].userName
    ELSE c.body["userName"]

NamesOf(cs) == [i \in DOMAIN cs |-> CallUserName(cs[i])]

\* C2: in a live user sync a failed create, replace or delete changes nothing
\* for the other items: the mutating calls issued so far are exactly the calls
\* the snapshot asks for, item after item and then delete after delete,
\* whichever of them failed; errors holds exactly one entry per failed call, in
\* order, of the form "<userName>: <message>"; created, updated and deleted
\* hold exactly the names whose call succeeded.
C2_FailureIsIsolated ==
    (api \in UserApis /\ ~dry_run /\ pc \in {"loop", "delete", "done"}) =>
        /\ [i \in DOMAIN MutCalls |-> Strip(MutCalls[i])]
             = Concat([i \in 1..LoopDone |-> PlannedUserCall(i)])
               \o Concat([j \in 1..DeleteDone |-> PlannedUserDelete(j)])
        /\ LET failed == SelectSeq(MutCalls, Failed)
           IN result.errors =
                [i \in DOMAIN failed |->
                   <<CallUserName(failed[i]), ": ">> \o ResponseError(failed[i].status)]
        /\ result.created =
             NamesOf(SelectSeq(MutCalls, LAMBDA c : c.method = "POST" /\ ~Failed(c)))
        /\ result.updated =
             NamesOf(SelectSeq(MutCalls, LAMBDA c : c.method = "PUT" /\ ~Failed(c)))
        /\ result.deleted =
             NamesOf(SelectSeq(MutCalls, LAMBDA c : c.method = "DELETE" /\ ~Failed(c)))

\* a finished run whose first mutating call failed and whose next one, for a
\* later item, succeeded
C2_Witness ==
    /\ api \in UserApis /\ ~dry_run /\ pc = "done"
    /\ Len(MutCalls) >= 2
    /\ Failed(MutCalls[1]) /\ ~Failed(MutCalls[2])
    /\ Len(result.errors) = 1

DistinctUserNames ==
    \A i, j \in DOMAIN users : i # j => users[i].userName # users[j].userName

\* the second run issued no create, replace or delete and found every desired
\* userName unchanged
SecondRunIsQuiet ==
    /\ MutCalls = <<>>
    /\ result.created = <<>> /\ result.updated = <<>> /\ result.deleted = <<>>
    /\ result.unchanged = [i \in DOMAIN users |-> users[i].userName]

\* C4 as stated, read for live runs whose first run reported no error: the
\* second of two user syncs with the same desired list is quiet.
C4_Original ==
    (api \in UserApis /\ run = 2 /\ pc = "done" /\ ~dry_run /\ first.errors = <<>>)
        => SecondRunIsQuiet

\* C4 (amended): when the desired userNames are pairwise distinct, the runs
\* are live and the first run reported no error, the second of two user syncs
\* with the same desired list issues no create, replace or delete and
\* classifies every desired userName as unchanged.
C4_IdempotentOnDistinctNames ==
    (api \in UserApis /\ run = 2 /\ pc = "done" /\ ~dry_run /\ first.errors = <<>>
       /\ DistinctUserNames)
        => SecondRunIsQuiet

\* a second run after a first run that created one user and updated another
C4_Witness ==
    /\ api \in UserApis /\ run = 2 /\ pc = "done" /\ ~dry_run
    /\ first.errors = <<>> /\ DistinctUserNames
    /\ Len(first.created) > 0 /\ Len(first.updated) > 0

DesiredGroupNames == {groups[i].displayName : i \in DOMAIN groups}

\* the snapshot the delete phase walks, and the desired natural keys
Snapshot == IF api \in UserApis THEN idc_users ELSE idc_groups
SnapshotKey(x) == IF api \in UserApis THEN x.userName ELSE x.displayName
DesiredKeys == IF api \in UserApis THEN DesiredUserNames ELSE DesiredGroupNames
ResourcePath == IF api \in UserApis THEN "/Users" ELSE "/Groups"
DeleteOf(x, c) == c.method = "DELETE" /\ c.path = ResourcePath /\ c.id = x.id

\* C6: at the end of a live full sync with delete enabled, every actual user
\* (group) whose userName (displayName) is not desired has received exactly one
\* delete call and, if that call succeeded, is listed in deleted and gone from
\* the directory; no user or group whose key is desired received a delete call,
\* and every such resource is still in the directory.
C6_DeleteExactlyTheUndesired ==
    (api \in SyncApis /\ AllowDelete /\ ~dry_run /\ pc = "done") =>
        \A i \in DOMAIN Snapshot :
            LET x == Snapshot[i]
                dels == SelectSeq(calls, LAMBDA c : DeleteOf(x, c))
            IN IF SnapshotKey(x) \in DesiredKeys
               THEN /\ dels = <<>>
                    /\ SnapshotKey(x) \notin Range(result.deleted)
                    /\ x.id \in Ids(IF api \in UserApis THEN dirUsers ELSE dirGroups)
               ELSE /\ Len(dels) = 1
                    /\ ~Failed(dels[1]) =>
                          /\ SnapshotKey(x) \in Range(result.deleted)
                          /\ x.id \notin Ids(IF api \in UserApis THEN dirUsers
                                             ELSE dirGroups)

\* a finished live full group sync that deleted one group and kept a desired one
C6_Witness ==
    /\ api = "full_sync_groups" /\ AllowDelete /\ ~dry_run /\ pc = "done"
    /\ Len(result.deleted) > 0
    /\ \E i \in DOMAIN idc_groups : idc_groups[i].displayName \in DesiredGroupNames

\* the calls a step appends to the log
NewCalls == SubSeq(calls', Len(calls) + 1, Len(calls'))

\* fields of a user record other than id, schemas and meta
UserFields == {"userName", "externalId", "displayName", "active", "emails"}
Differing(u, v) == {f \in UserFields : u[f] # v[f]}

\* C5: in a live user sync, for the desired user at hand: if its userName is
\* no key of the snapshot, one create is issued for it and, the call
\* succeeding, the name is appended to created; if it is a key and the two
\* records agree on every field other than id, schemas and meta, no call is
\* issued and the name is appended to unchanged; otherwise exactly one replace
\* is issued to the actual record's id, with that id and every present field of
\* the desired record in its body, and, the call succeeding, the name is
\* appended to updated and details lists exactly the differing fields.
C5_DecisionPerUser ==
    [][(pc = "loop" /\ api \in UserApis /\ ~dry_run) =>
        LET user == users[idx]
            name == user.userName
            pos == IndexOf(idc_users, "userName", name)
        IN IF pos = 0
           THEN /\ Len(NewCalls) = 1
                /\ NewCalls[1].method = "POST" /\ NewCalls[1].path = "/Users"
                /\ NewCalls[1].body["userName"] = name
                /\ "id" \notin DOMAIN NewCalls[1].body
                /\ ~Failed(NewCalls[1]) =>
                      /\ result'.created = Append(result.created, name)
                      /\ result'.updated = result.updated
                      /\ result'.unchanged = result.unchanged
                      /\ result'.errors = result.errors
           ELSE IF Differing(user, idc_users[pos]) = {}
           THEN /\ NewCalls = <<>>
                /\ result' = [result EXCEPT !.unchanged = Append(@, name)]
           ELSE /\ Len(NewCalls) = 1
                /\ NewCalls[1].method = "PUT" /\ NewCalls[1].path = "/Users"
                /\ NewCalls[1].id = idc_users[pos].id
                /\ NewCalls[1].body["id"] = idc_users[pos].id
                /\ \A f \in UserFields :
                      (IF f = "emails" THEN user[f] # <<>> ELSE user[f] # None)
                          => f \in DOMAIN NewCalls[1].body
                /\ ~Failed(NewCalls[1]) =>
                      /\ result'.updated = Append(result.updated, name)
                      /\ result'.created = result.created
                      /\ result'.unchanged = result.unchanged
                      /\ result'.errors = result.errors
                      /\ result'.details[name].fields = Differing(user, idc_users[pos])
                      /\ result'.details[name].id = idc_users[pos].id]_vars

\* a finished live run that created one user and replaced another that
\* differed in two fields
C5_Witness ==
    /\ api \in UserApis /\ ~dry_run /\ pc = "done" /\ run = 1
    /\ Len(result.created) > 0 /\ Len(result.updated) > 0
    /\ \E k \in DOMAIN result.details :
          /\ "fields" \in DOMAIN result.details[k]
          /\ Cardinality(result.details[k].fields) = 2

\* ids of an annotated member list of details
AnnotatedIds(l) == {l[i].id : i \in DOMAIN l}
\* members named by the add (remove) operations of the PATCH calls among cs
PatchedMembers(cs, op) ==
    UNION {UNION {OpMembers(cs[i].body["Operations"][j]) :
                    j \in {k \in DOMAIN cs[i].body["Operations"] :
                             cs[i].body["Operations"][k]["op"] = op}} :
             i \in {k \in DOMAIN cs : cs[k].method = "PATCH"}}

\* the directory's ids of the users with one of these userNames
DirIdsOf(names) ==
    {dirUsers[i]["id"] : i \in {j \in DOMAIN dirUsers : dirUsers[j]["userName"] \in names}}

\* C8: for the existing group at hand, with A its members in the directory
\* (among the known users) and D the ids of its desired member names that are
\* users, a group sync step in which no call fails has toAdd = D \ A and, in
\* full sync, toRemove = A \ D, in incremental sync toRemove = {}: it records
\* the group unchanged and patches nothing when both are empty, and otherwise
\* records it updated with exactly these added and removed members, which (live)
\* are the members its add and remove patches carry.
C8_MembershipDiff ==
    [][(/\ pc = "loop" /\ api \in GroupApis
        /\ IndexOf(idc_groups, "displayName", groups[idx].displayName) # 0
        /\ Len(result'.errors) = Len(result.errors)) =>
        LET name == groups[idx].displayName
            gid == idc_groups[IndexOf(idc_groups, "displayName", name)].id
            A == dirMembers[gid] \cap Ids(dirUsers)
            D == DirIdsOf(Range(Get(members_map, name, <<>>)))
            toAdd == D \ A
            toRemove == IF api = "full_sync_groups" THEN A \ D ELSE {}
        IN IF toAdd = {} /\ toRemove = {}
           THEN /\ result'.unchanged = Append(result.unchanged, name)
                /\ result'.updated = result.updated
                /\ \A i \in DOMAIN NewCalls : NewCalls[i].method = "GET"
                /\ dirMembers' = dirMembers
           ELSE /\ result'.updated = Append(result.updated, name)
                /\ result'.unchanged = result.unchanged
                /\ AnnotatedIds(result'.details[name].added) = toAdd
                /\ AnnotatedIds(result'.details[name].removed) = toRemove
                /\ ~dry_run =>
                      /\ PatchedMembers(NewCalls, "add") = toAdd
                      /\ PatchedMembers(NewCalls, "remove") = toRemove
                      /\ dirMembers'[gid] = (dirMembers[gid] \cup toAdd) \ toRemove]_vars

\* a finished live full group sync that added one member to a group and
\* removed another from it
C8_Witness ==
    /\ api = "full_sync_groups" /\ ~dry_run /\ pc = "done"
    /\ \E k \in DOMAIN result.details :
          /\ "removed" \in DOMAIN result.details[k]
          /\ result.details[k].added # <<>>
          /\ result.details[k].removed # <<>>

\* C9: in group sync the desired member names of the group at hand that are
\* the userName of no directory user are listed, in order, under 'skipped' in
\* the group's details when its step ends without error; the members its add
\* patches and its 'added' list carry are ids of directory users that are
\* desired members; and the step records an error only when one of its calls
\* failed.
C9_UnresolvedAreSkipped ==
    [][(pc = "loop" /\ api \in GroupApis) =>
        LET name == groups[idx].displayName
            wanted == Get(members_map, name, <<>>)
            unresolved == SelectSeq(wanted, LAMBDA m : DirIdsOf({m}) = {})
        IN /\ (Len(result'.errors) = Len(result.errors) /\ unresolved # <<>>) =>
                 /\ name \in DOMAIN result'.details
                 /\ result'.details[name].skipped = unresolved
           /\ PatchedMembers(NewCalls, "add") \subseteq DirIdsOf(Range(wanted))
           /\ (Len(result'.errors) = Len(result.errors)
                 /\ name \in DOMAIN result'.details
                 /\ "added" \in DOMAIN result'.details[name]) =>
                 AnnotatedIds(result'.details[name].added) \subseteq DirIdsOf(Range(wanted))
           /\ Len(result'.errors) > Len(result.errors) =>
                 /\ NewCalls # <<>>
                 /\ Failed(NewCalls[Len(NewCalls)])]_vars

\* a finished error-free group sync with a group that has a skipped member
\* name beside an added member
C9_Witness ==
    /\ api \in GroupApis /\ pc = "done" /\ result.errors = <<>>
    /\ \E k \in DOMAIN result.details :
          /\ "added" \in DOMAIN result.details[k]
          /\ result.details[k].skipped # <<>>
          /\ result.details[k].added # <<>>

\* the member ids a patch body carries, in the order it carries them
BodyMembers(body) ==
    LET ops == body["Operations"]
    IN IF ops[1]["op"] = "add"
       THEN [i \in DOMAIN ops[1]["value"] |-> ops[1]["value"][i]["value"]]
       ELSE [i \in DOMAIN ops |-> ops[i]["path"][2]]

\* C10: add_group_members and remove_group_members that return, given n member
\* ids, have issued exactly ceil(n / 100) patch calls (none for n = 0), each
\* carrying at most 100 members, whose member lists put end to end are the
\* input list; 250 ids give calls of 100, 100 and 50 members.
C10_BatchesOfAtMost100 ==
    (api \in BatchApis /\ pc = "done") =>
        LET n == Len(user_ids)
            carried == [k \in DOMAIN calls |-> BodyMembers(calls[k].body)]
        IN /\ Len(calls) = (n + 99) \div 100
           /\ \A k \in DOMAIN calls :
                 /\ calls[k].method = "PATCH" /\ calls[k].path = "/Groups"
                 /\ Len(carried[k]) >= 1 /\ Len(carried[k]) <= 100
           /\ Concat(carried) = user_ids
           /\ n = 250 => [k \in DOMAIN carried |-> Len(carried[k])] = <<100, 100, 50>>

\* a returned call that was given 250 ids
C10_Witness ==
    /\ api \in BatchApis /\ pc = "done"
    /\ Len(user_ids) = 250 /\ Len(calls) = 3

\* the members the first k batches of the id list carry
CarriedBy(k) == Range(SubSeq(user_ids, 1, Min(Len(user_ids), MAX_PAGE_SIZE * k)))

\* C11: when batch k of add_group_members / remove_group_members is rejected,
\* the calls issued are the batches 1..k as planned and nothing else (no batch
\* after k, no compensating call), the directory holds the effect of the
\* batches 1..k-1, no further patch can be issued, and the group sync that made
\* the call records exactly one error, for that group.
C11_PartialBatchesStay ==
    api \in BatchApis =>
        /\ \A i \in DOMAIN calls :
              /\ Strip(calls[i]) = Strip(BatchPlan[i])
              /\ Failed(calls[i]) => (i = Len(calls) /\ pc \in {"raised", "caught"})
        /\ pc \in {"raised", "caught"} =>
              LET k == Len(calls)
                  g == InitGroupId(GroupOrder[1])
              IN /\ k >= 1 /\ Failed(calls[k])
                 /\ dirMembers[g] = IF api = "add_group_members"
                                    THEN CarriedBy(k - 1)
                                    ELSE Range(user_ids) \ CarriedBy(k - 1)
                 /\ ~ENABLED BatchCall
                 /\ pc = "caught" =>
                       /\ Len(result.errors) = 1
                       /\ result.errors[1][1] = GroupOrder[1]

\* the second of three batches was rejected after the first was applied, and
\* the group sync recorded the failure
C11_Witness ==
    /\ api \in BatchApis /\ pc = "caught"
    /\ Len(user_ids) = 250 /\ Len(calls) = 2

\* the membership-containment queries of the run: the first fetch of every
\* listing filtered by `members.value eq <user id>`
MembershipQueries ==
    SelectSeq(calls, LAMBDA c : /\ c.method = "GET"
                                /\ "filter" \in DOMAIN c.body
                                /\ "cursor" \notin DOMAIN c.body)
\* the desired groups (with repetitions) found among the actual groups
ExistingDesired == {i \in DOMAIN groups : IndexOf(idc_groups, "displayName", groups[i].displayName) # 0}
NoGetFailed == \A i \in DOMAIN calls : calls[i].method = "GET" => ~Failed(calls[i])

\* C12 as stated, for finished runs without a failed query that reconciled at
\* least one existing group: the membership queries are as many as the known
\* users.
C12_Original ==
    (api \in GroupApis /\ pc = "done" /\ NoGetFailed /\ ExistingDesired # {})
        => Len(MembershipQueries) = Len(UserIdMap)

\* C12 (amended): in a finished group sync run without a failed query, the
\* membership queries are as many as the known users times the desired groups
\* found among the actual groups: the memberships are queried anew for every
\* existing group.
C12_QueriesPerGroupAndUser ==
    (api \in GroupApis /\ pc = "done" /\ NoGetFailed)
        => Len(MembershipQueries) = Cardinality(ExistingDesired) * Len(UserIdMap)

\* a finished run that reconciled two existing groups with four queries for
\* two users
C12_Witness ==
    /\ api \in GroupApis /\ pc = "done" /\ NoGetFailed
    /\ Cardinality(ExistingDesired) = 2
    /\ Len(UserIdMap) = 2
    /\ Len(MembershipQueries) = 4

AllSucceeded == \A i \in DOMAIN calls : ~Failed(calls[i])
DistinctDesiredKeys ==
    /\ DistinctUserNames
    /\ \A i, j \in DOMAIN groups : i # j => groups[i].displayName # groups[j].displayName
\* the live outcome and the dry outcome (kept in `first`) have the same lists
SameLists ==
    /\ result.created = first.created
    /\ result.updated = first.updated
    /\ result.deleted = first.deleted
    /\ result.unchanged = first.unchanged
\* two details entries agree on the keys they share, the added and removed
\* lists compared as sets (their order is that of list(a_set))
SameDetail(d, e) ==
    \A key \in DOMAIN d \cap DOMAIN e :
        IF key \in {"added", "removed"} THEN Range(d[key]) = Range(e[key])
        ELSE d[key] = e[key]
\* a finished live run after its dry run, no call of either having failed
LiveAfterDry ==
    /\ api \in SyncApis /\ run = 3 /\ pc = "done"
    /\ first.errors = <<>> /\ AllSucceeded
    /\ DistinctDesiredKeys

\* C13 as stated, for desired lists without repeated keys: a live run in which
\* every call succeeds returns the lists of the dry run and a details mapping
\* with the same keys and the same keys per entry.
C13_Original ==
    LiveAfterDry =>
        /\ SameLists
        /\ DOMAIN result.details = DOMAIN first.details
        /\ \A k \in DOMAIN result.details :
              DOMAIN result.details[k] = DOMAIN first.details[k]

\* C13 (amended): for a desired list without repeated keys, a live run in which
\* every call succeeds returns the created, updated, deleted and unchanged
\* lists of the dry run, and the same details (added and removed lists up to
\* order) except for the created items: the live run records the assigned id,
\* which the dry run cannot; a created user has no details entry in the dry
\* run, a created group has its entry without the id.
C13_DryRunPredictsLive ==
    LiveAfterDry =>
        /\ SameLists
        /\ DOMAIN first.details \subseteq DOMAIN result.details
        /\ \A k \in DOMAIN result.details :
              IF k \in Range(result.created)
              THEN /\ "id" \in DOMAIN result.details[k]
                   /\ IF api \in UserApis
                      THEN /\ k \notin DOMAIN first.details
                           /\ DOMAIN result.details[k] = {"id"}
                      ELSE /\ k \in DOMAIN first.details
                           /\ DOMAIN first.details[k] = DOMAIN result.details[k] \ {"id"}
                           /\ SameDetail(first.details[k], result.details[k])
              ELSE /\ k \in DOMAIN first.details
                   /\ DOMAIN first.details[k] = DOMAIN result.details[k]
                   /\ SameDetail(first.details[k], result.details[k])

\* a live full group sync after its dry run, which created a group with a
\* skipped member name, updated another and deleted a third
C13_Witness ==
    /\ LiveAfterDry /\ api = "full_sync_groups"
    /\ Len(result.created) > 0 /\ Len(result.updated) > 0
    /\ \E k \in Range(result.created) : result.details[k].skipped # <<>>

\* the names the outcome classifies, and the names its error entries are for
ClassifiedNames == Range(result.created) \cup Range(result.updated) \cup Range(result.unchanged)
ErrorNames == {result.errors[i][1] : i \in DOMAIN result.errors}

\* C14: a user sync request holding a record that breaks a directory
\* restriction (no email, two emails) goes on past the validation, and when it
\* is done the outcome has an error entry for that record, the record is in
\* none of created, updated and unchanged, and every valid record of the
\* request is classified or has its own error entry.
C14_InvalidRecordIsIsolated ==
    (api \in UserApis /\ run = 1 /\ pc # "build"
       /\ \E i \in DOMAIN users : ~UserValid(users[i])) =>
        /\ pc # "invalid"
        /\ pc = "done" =>
              \A i \in DOMAIN users :
                  IF UserValid(users[i])
                  THEN users[i].userName \in ClassifiedNames \cup ErrorNames
                  ELSE /\ users[i].userName \in ErrorNames
                       /\ users[i].userName \notin ClassifiedNames

NameLists == {"created", "updated", "deleted", "unchanged"}
PairwiseDisjoint ==
    \A f, g \in NameLists : f # g => Range(result[f]) \cap Range(result[g]) = {}
NoRepeats ==
    \A f \in NameLists : \A i, j \in DOMAIN result[f] : i # j => result[f][i] # result[f][j]

\* C15 as stated: in every outcome returned by user sync or group sync the
\* collections created, updated, deleted and unchanged are pairwise disjoint.
C15_Original ==
    (api \in SyncApis /\ pc = "done") => PairwiseDisjoint

\* C15 (amended): when the natural keys of the desired list are pairwise
\* distinct, the collections created, updated, deleted and unchanged of the
\* outcome are pairwise disjoint at every point of the run, and none holds a
\* name twice.
C15_DisjointOnDistinctKeys ==
    (api \in SyncApis /\ DistinctDesiredKeys) => (PairwiseDisjoint /\ NoRepeats)

\* a finished full sync of two distinct desired keys that updated one record
\* and deleted another
C15_Witness ==
    /\ api \in SyncApis /\ pc = "done" /\ DistinctDesiredKeys
    /\ Len(result.updated) > 0 /\ Len(result.deleted) > 0

\* what the unfiltered listing does beside the number of its fetches: it
\* yields the directory's items, each once and in server order, every fetch
\* carries count = 100 and no filter, and the first an empty cursor
UnfilteredListing ==
    /\ pg.items = dirUsers
    /\ \A i \in DOMAIN calls :
          /\ calls[i].method = "GET" /\ calls[i].path = "/Users"
          /\ calls[i].body["count"] = 100
          /\ "filter" \notin DOMAIN calls[i].body
    /\ "cursor" \in DOMAIN calls[1].body
    /\ calls[1].body["cursor"] = ""

\* C16 as stated: a finished unfiltered listing of N items, served in full
\* pages of 100, yields the N items in order with exactly ceil(N / 100)
\* fetches.
C16_Original ==
    (api = "list_users" /\ pc = "done") =>
        /\ UnfilteredListing
        /\ Len(calls) = (Len(dirUsers) + 99) \div 100

\* C16 (amended): a finished unfiltered listing of N items, served in full
\* pages of 100, yields exactly the N items, each once and in server order,
\* with ceil(N / 100) fetches when N >= 1 (3 for N = 250) and one fetch when
\* N = 0; every fetch carries count = 100 and the first an empty cursor.
C16_ListingYieldsAll ==
    (api = "list_users" /\ pc = "done") =>
        /\ UnfilteredListing
        /\ Len(calls) = IF dirUsers = <<>> THEN 1 ELSE (Len(dirUsers) + 99) \div 100
        /\ Len(dirUsers) = 250 => Len(calls) = 3

\* a finished listing of 250 items in 3 fetches
C16_Witness ==
    /\ api = "list_users" /\ pc = "done"
    /\ Len(dirUsers) = 250 /\ Len(pg.items) = 250 /\ Len(calls) = 3

\* C17: in a listing with a filter every fetch carries the filter, the first
\* fetch carries no cursor parameter at all, and every later fetch carries one.
C17_FilteredFirstFetchHasNoCursor ==
    api = "get_user_groups" =>
        \A i \in DOMAIN calls :
            /\ "filter" \in DOMAIN calls[i].body
            /\ calls[i].body["filter"] = MemberFilter(PageUserId)
            /\ ("cursor" \in DOMAIN calls[i].body) <=> (i >= 2)

\* a finished filtered listing of three fetches
C17_Witness ==
    /\ api = "get_user_groups" /\ pc = "done"
    /\ Len(calls) = 3 /\ Len(pg.items) = Len(dirGroups)

\* the continuation cursor a list response carries under either spelling, the
\* empty string when it carries none
Continuation(page) ==
    LET a == Get(page, "nextCursor", "")
    IN IF a # "" THEN a ELSE Get(page, "nextcursor", "")

\* C18: in the pagination iterator every fetch after the first carries the
\* cursor the preceding page returned, under either spelling; a page whose
\* cursor is absent or the empty string is the last one (the iterator is done
\* and fetches no more), and the iterator is done only after such a page.
C18_CursorChain ==
    api \in PageApis =>
        /\ \A k \in DOMAIN calls :
              k >= 2 => /\ k - 1 \in DOMAIN pages
                        /\ calls[k].body["cursor"] = Continuation(pages[k - 1])
        /\ \A k \in DOMAIN pages :
              Continuation(pages[k]) = "" =>
                  /\ k = Len(pages) /\ Len(calls) = k
                  /\ pc = "done"
                  /\ ~ENABLED PageStep
        /\ pc = "done" =>
              /\ pages # <<>>
              /\ Continuation(pages[Len(pages)]) = ""

\* a finished listing whose first page spelled the cursor nextcursor and whose
\* last page carried an empty nextCursor
C18_Witness ==
    /\ api \in PageApis /\ pc = "done" /\ Len(pages) = 3
    /\ "nextcursor" \in DOMAIN pages[1]
    /\ "nextCursor" \in DOMAIN pages[2]
    /\ "nextCursor" \in DOMAIN pages[3] /\ pages[3]["nextCursor"] = ""

\* the successful PATCH calls on /Groups/{g} among cs
PatchesTo(cs, g) ==
    {i \in DOMAIN cs : /\ cs[i].method = "PATCH" /\ cs[i].path = "/Groups"
                       /\ cs[i].id = g /\ ~Failed(cs[i])}

\* C19: in a live group sync, for the desired group at hand that is absent
\* from the snapshot, the step issues one create call whose body has no
\* members field; when the create fails nothing follows; when it succeeds it
\* is followed by add patches on the new group's id if and only if the set D
\* of resolved member ids is not empty, and by nothing else, and, no patch
\* failing, the patches carry exactly D. In every step of a sync the members
\* of a group change only by a successful PATCH on /Groups/{id} of that step,
\* and a new group has members only by such a PATCH.
C19_CreateThenPatch ==
    [][/\ (/\ pc = "loop" /\ api \in GroupApis /\ ~dry_run
           /\ IndexOf(idc_groups, "displayName", groups[idx].displayName) = 0) =>
            LET name == groups[idx].displayName
                D == DirIdsOf(Range(Get(members_map, name, <<>>)))
            IN /\ NewCalls # <<>>
               /\ NewCalls[1].method = "POST" /\ NewCalls[1].path = "/Groups"
               /\ NewCalls[1].body["displayName"] = name
               /\ "members" \notin DOMAIN NewCalls[1].body
               /\ \A i \in DOMAIN NewCalls :
                     i >= 2 => /\ NewCalls[i].method = "PATCH"
                               /\ NewCalls[i].path = "/Groups"
                               /\ NewCalls[i].id = nextId
                               /\ ~Failed(NewCalls[i - 1])
               /\ Failed(NewCalls[1]) => Len(NewCalls) = 1
               /\ ~Failed(NewCalls[1]) =>
                     /\ nextId \in DOMAIN dirMembers' \ DOMAIN dirMembers
                     /\ (Len(NewCalls) >= 2) <=> (D # {})
                     /\ PatchedMembers(NewCalls, "remove") = {}
                     /\ PatchedMembers(NewCalls, "add") \subseteq D
                     /\ ~Failed(NewCalls[Len(NewCalls)]) =>
                           /\ PatchedMembers(NewCalls, "add") = D
                           /\ dirMembers'[nextId] = D
       /\ \A g \in DOMAIN dirMembers' :
             LET before == IF g \in DOMAIN dirMembers THEN dirMembers[g] ELSE {}
             IN dirMembers'[g] # before => PatchesTo(NewCalls, g) # {}]_vars

\* a finished live group sync that created a group and gave it a member
C19_Witness ==
    /\ api \in GroupApis /\ ~dry_run /\ pc = "done" /\ run = 1
    /\ \E i \in DOMAIN result.created :
          LET name == result.created[i]
          IN /\ name \in DOMAIN result.details
             /\ result.details[name].added # <<>>
             /\ \E c \in DOMAIN calls : /\ calls[c].method = "POST"
                                        /\ calls[c].path = "/Groups"
                                        /\ calls[c].body["displayName"] = name
                                        /\ ~Failed(calls[c])
             /\ dirMembers[result.details[name].id] # {}

\* C20: no step of the sync engine changes a desired group or the desired
\* member names, and a desired user record changes in one case only: a live
\* user sync step whose user is in the snapshot and differs from the actual
\* record sets the id of that one record to the actual record's id, which is
\* the id the replace call of the step is sent to; in a dry run, and for a
\* created or an unchanged user, every desired record stays as it was.
C20_DesiredRecordsKept ==
    [][/\ groups' = groups
       /\ members_map' = members_map
       /\ Len(users') = Len(users)
       /\ IF /\ pc = "loop" /\ api \in UserApis /\ ~dry_run
             /\ IndexOf(idc_users, "userName", users[idx].userName) # 0
             /\ Differing(users[idx],
                   idc_users[IndexOf(idc_users, "userName", users[idx].userName)]) # {}
          THEN LET actual == idc_users[IndexOf(idc_users, "userName",
                                               users[idx].userName)]
               IN /\ users' = [users EXCEPT ![idx].id = actual.id]
                  /\ \A i \in DOMAIN NewCalls :
                        /\ NewCalls[i].method = "PUT"
                        /\ NewCalls[i].id = users'[idx].id
                        /\ NewCalls[i].body["id"] = users'[idx].id
          ELSE users' = users]_vars

\* a finished live user sync that replaced a user: the desired record now
\* carries the actual record's id, and a created user's record carries none
C20_Witness ==
    /\ api \in UserApis /\ ~dry_run /\ pc = "done" /\ run = 1
    /\ result.updated # <<>> /\ result.created # <<>>
    /\ \E i \in DOMAIN users :
          /\ users[i].userName = result.updated[1]
          /\ users[i].id # NoId
          /\ users[i].id = result.details[users[i].userName].id
    /\ \E i \in DOMAIN users :
          /\ users[i].userName = result.created[1]
          /\ users[i].id = NoId

\* the snapshot a listing pass over the directory of the start of the run gives
SnapshotOf(items) ==
    KeyedBy(<<>>, [i \in DOMAIN items |-> UserFromDict(items[i])], "userName")
\* the desired users the loop is done with whose userName is no snapshot key
AbsentDone ==
    SelectSeq([i \in 1..LoopDone |-> users[i].userName],
              LAMBDA n : IndexOf(idc_users, "userName", n) = 0)

\* C21: in a user sync no GET is issued after a mutating call; once the loop
\* has started, the GETs of the run are the fetches of one listing pass over
\* the directory as it was when the run started, the snapshot is what that pass
\* listed and stays the same to the end of the run, and (live) one create has
\* been issued for every desired item done whose userName is no key of the
\* snapshot, in list order, a userName created earlier in the run included.
C21_OneSnapshotPerRun ==
    (api \in UserApis /\ pc \in {"list_users", "loop", "delete", "done"}) =>
        /\ \A i, j \in DOMAIN calls :
              (i < j /\ Mutating(calls[i])) => calls[j].method # "GET"
        /\ pc # "list_users" =>
              LET gets == SelectSeq(calls, LAMBDA c : c.method = "GET")
              IN /\ gets = SubSeq(calls, 1, Len(gets))
                 /\ [i \in DOMAIN gets |-> gets[i].body]
                      = Fetches(dir0.users, <<>>, TRUE, None)
                 /\ \A i \in DOMAIN gets : BaselineGet(gets[i]) /\ ~Failed(gets[i])
                 /\ idc_users = SnapshotOf(dir0.users)
                 /\ ~dry_run =>
                       NamesOf(SelectSeq(calls, LAMBDA c : c.method = "POST"))
                         = AbsentDone

\* a finished live run that issued two creates for one userName: the second
\* was decided on the snapshot although the first had created the user
C21_Witness ==
    /\ api \in UserApis /\ ~dry_run /\ pc = "done"
    /\ \E i, j \in DOMAIN calls :
          /\ i < j
          /\ calls[i].method = "POST" /\ calls[j].method = "POST"
          /\ calls[i].body["userName"] = calls[j].body["userName"]
          /\ ~Failed(calls[i]) /\ calls[j].status = 409
    /\ calls[1].method = "GET"

\* the success statuses of a transport operation as C22 names them
SuccessOf(op) == IF op = "_delete" THEN {200, 204} ELSE {200, 201, 204}
\* the detail (or message) text of a JSON payload
DetailOrMessage(d) ==
    IF "detail" \in DOMAIN d /\ d["detail"] # "" THEN d["detail"]
    ELSE IF "message" \in DOMAIN d THEN d["message"] ELSE None
AnsweredCall == api \in TransportOps /\ pc \in {"done", "raised"}

\* C22 as stated: every transport operation returns the parsed body on a
\* success status, nothing on 204 or an empty body, and on any other status
\* raises a protocol error carrying the numeric status of the response and the
\* payload's detail (or message); delete succeeds on 200 and 204 only.
C22_Original ==
    AnsweredCall =>
        LET resp == req.resp
        IN IF resp.status_code \in SuccessOf(api)
           THEN IF resp.status_code = 204 \/ resp.content.kind = "empty"
                THEN ret.kind = "return" /\ ret.value = Nothing
                ELSE resp.content.kind = "json" =>
                        ret.kind = "return" /\ ret.value = Body(resp.content.data)
           ELSE /\ ret.kind = "raise" /\ ret.exc = "SCIMClientError"
                /\ ret.error.status = JInt(resp.status_code)
                /\ resp.content.kind = "json" =>
                      ret.error.detail = DetailOrMessage(resp.content.data)

\* C22 (amended): get, create, replace and patch return the parsed body on a
\* success status with a JSON body and nothing on 204 or an empty body; delete
\* returns nothing on every success; a success status with a body that is no
\* JSON raises a decoding error. On any other status the call raises a protocol
\* error whose status is the status field of the payload when the payload is a
\* JSON object that has one, and else the numeric status of the response, and
\* whose detail is the payload's detail (or message) text, or the raw text of
\* a payload that is no JSON. Delete succeeds on 200 and 204 only, the others
\* on 200, 201 and 204.
C22_TransportOutcome ==
    AnsweredCall =>
        LET resp == req.resp
        IN IF resp.status_code \in SuccessOf(api)
           THEN IF resp.status_code = 204 \/ resp.content.kind = "empty"
                THEN ret.kind = "return" /\ ret.value = Nothing
                ELSE IF resp.content.kind = "json"
                THEN /\ ret.kind = "return"
                     /\ ret.value = IF api = "_delete" THEN Nothing
                                    ELSE Body(resp.content.data)
                ELSE ret.kind = "raise" /\ ret.exc = "JSONDecodeError"
           ELSE /\ ret.kind = "raise" /\ ret.exc = "SCIMClientError"
                /\ IF resp.content.kind = "json"
                   THEN /\ ret.error.status =
                             IF "status" \in DOMAIN resp.content.data
                             THEN resp.content.data["status"]
                             ELSE JInt(resp.status_code)
                        /\ ret.error.detail = DetailOrMessage(resp.content.data)
                   ELSE /\ ret.error.status = JInt(resp.status_code)
                        /\ ret.error.detail = resp.content.text

\* a delete answered 201 raised an error that carries the payload's message
C22_Witness ==
    /\ api = "_delete" /\ pc = "raised" /\ req.resp.status_code = 201
    /\ req.resp.content.kind = "json"
    /\ "detail" \notin DOMAIN req.resp.content.data
    /\ ret.exc = "SCIMClientError" /\ ret.error.detail = "conflict"
    /\ ret.error.status = JInt(201)

\* C23: constructing a user record locally raises a validation error exactly
\* when userName is missing, no email is given, or more than one email, phone
\* number or address is given, so a constructed record has one email and at
\* most one phone number and address; a record deserialized from a directory
\* response is never rejected, whatever the response holds.
C23_ValidationOnlyOnLocalRecords ==
    /\ (api = "SCIMUser" /\ pc \in {"done", "raised"}) =>
          /\ (ret.kind = "raise") <=>
                \/ req.user.userName = ""
                \/ req.user.emails = <<>>
                \/ Len(req.user.emails) > 1
                \/ Len(req.user.phoneNumbers) > 1
                \/ Len(req.user.addresses) > 1
          /\ ret.kind = "raise" => ret.exc = "SCIMValidationError"
          /\ ret.kind = "return" =>
                /\ ret.value = Body(req.user)
                /\ Len(ret.value.body.emails) = 1
                /\ Len(ret.value.body.phoneNumbers) <= 1
                /\ Len(ret.value.body.addresses) <= 1
    /\ (api = "SCIMUser.from_dict" /\ pc \in {"done", "raised"}) =>
          ret.kind = "return"

\* the keys to_dict is to emit for the fields of u that hold a value: a
\* single-valued field that is not None, a list that is not empty, a name or
\* an enterprise extension with at least one part
PresentKeys(u) ==
    {f \in SingleFields : Field(u, f, None) # None}
    \cup {f \in {"emails", "phoneNumbers", "addresses", "roles"} :
            Field(u, f, <<>>) # <<>>}
    \cup {f \in {"name"} :
            /\ u.name # <<>>
            /\ \E k \in NameFields : u.name[1][k] # None}
    \cup {f \in {ENTERPRISE_USER_SCHEMA} :
            /\ u.enterprise # <<>>
            /\ \/ \E k \in EnterpriseFields : u.enterprise[1][k] # None
               \/ u.enterprise[1].manager # <<>>}

\* C24: user serialization is sparse: the keys emitted are exactly userName,
\* the fields that hold a value, schemas in create mode (for_create), and id
\* when include_id is requested and the record has an id; the create call
\* (for_create without include_id) never emits id; a single-valued field is
\* emitted with its value; a record with only userName and one email gives in
\* create mode exactly the keys userName, emails and schemas.
C24_SparseSerialization ==
    (api = "SCIMUser.to_dict" /\ pc = "done") =>
        LET u == req.user
            d == ret.value.body
        IN /\ DOMAIN d = {"userName"} \cup PresentKeys(u)
                         \cup (IF req.for_create THEN {"schemas"} ELSE {})
                         \cup (IF req.include_id /\ u.id # NoId THEN {"id"} ELSE {})
           /\ d["userName"] = u.userName
           /\ \A f \in SingleFields \cap DOMAIN d : d[f] = u[f]
           /\ "id" \in DOMAIN d => d["id"] = u.id
           /\ (req.for_create /\ ~req.include_id) =>
                 /\ "id" \notin DOMAIN d
                 /\ d["schemas"][1] = USER_SCHEMA
           /\ (PresentKeys(u) = {"emails"} /\ req.for_create /\ ~req.include_id) =>
                 DOMAIN d = {"userName", "emails", "schemas"}

\* a record with an id and nothing but userName and one email was serialized
\* in create mode to userName, emails and schemas; its name without parts was
\* left out
C24_Witness ==
    /\ api = "SCIMUser.to_dict" /\ pc = "done"
    /\ req.for_create /\ ~req.include_id
    /\ req.user.id # NoId /\ req.user.name # <<>>
    /\ PresentKeys(req.user) = {"emails"}
    /\ DOMAIN ret.value.body = {"userName", "emails", "schemas"}

\* a value of Filter.eq: a str, a bool
Str(x) == [isbool |-> FALSE, b |-> FALSE, s |-> x]
Bool(x) == [isbool |-> TRUE, b |-> x, s |-> ""]

\* C25: Filter.eq(attr, value) is the string attr eq "value" for a string
\* value (the value between double quotes, whatever it is) and attr eq true /
\* attr eq false for a boolean; the conjunction of two expressions L and R is
\* (L) and (R).
C25_FilterStrings ==
    /\ (api = "Filter.eq" /\ pc = "done") =>
          LET e == ret.value.body
          IN /\ (req.attr = "userName" /\ req.value = Str("a@b.com"))
                   => e = "userName eq \"a@b.com\""
             /\ (req.attr = "active" /\ req.value = Bool(TRUE)) => e = "active eq true"
             /\ (req.attr = "active" /\ req.value = Bool(FALSE)) => e = "active eq false"
             /\ (req.attr = "active" /\ req.value = Str("true"))
                   => e = "active eq \"true\""
             /\ (req.attr = "members.value" /\ req.value = Str(""))
                   => e = "members.value eq \"\""
             /\ e = req.attr \o " eq "
                    \o (IF req.value.isbool
                        THEN (IF req.value.b THEN "true" ELSE "false")
                        ELSE "\"" \o req.value.s \o "\"")
             /\ Len(e) = Len(req.attr) + 4
                         + (IF req.value.isbool
                            THEN (IF req.value.b THEN 4 ELSE 5)
                            ELSE Len(req.value.s) + 2)
    /\ (api = "FilterExpression.__and__" /\ pc = "done") =>
          LET e == ret.value.body
              L == FilterEq(req.self.attr, req.self.value)
              R == FilterEq(req.other.attr, req.other.value)
          IN /\ e = "(" \o L \o ") and (" \o R \o ")"
             /\ Len(e) = Len(L) + Len(R) + 9
             /\ (/\ req.self = [attr |-> "userName", value |-> Str("a@b.com")]
                 /\ req.other = [attr |-> "active", value |-> Bool(TRUE)])
                   => e = "(userName eq \"a@b.com\") and (active eq true)"

\* the conjunction of userName eq "a@b.com" and active eq true was built
C25_Witness ==
    /\ api = "FilterExpression.__and__" /\ pc = "done"
    /\ req.self = [attr |-> "userName", value |-> Str("a@b.com")]
    /\ req.other = [attr |-> "active", value |-> Bool(TRUE)]
    /\ ret.value.body = "(userName eq \"a@b.com\") and (active eq true)"

\* a finished live full user sync with delete enabled and no error
CleanFullUserSync ==
    /\ api = "full_sync_users" /\ allow_delete_arg /\ ~dry_run
    /\ pc = "done" /\ result.errors = <<>>

\* C26: after a live full user sync with delete enabled that returns no
\* error, the userNames of the directory are exactly the desired userNames,
\* and every directory user equals a desired record of its userName (the
\* desired record, when the desired userNames are distinct) on every field
\* other than id, schemas and meta.
C26_DirectoryMatchesDesired ==
    CleanFullUserSync =>
        /\ {dirUsers[i]["userName"] : i \in DOMAIN dirUsers} = DesiredUserNames
        /\ \A i \in DOMAIN dirUsers :
              \E j \in DOMAIN users :
                 /\ users[j].userName = dirUsers[i]["userName"]
                 /\ Differing(UserFromDict(dirUsers[i]), users[j]) = {}
        /\ \A i, j \in DOMAIN dirUsers :
              dirUsers[i]["userName"] = dirUsers[j]["userName"] => i = j

\* such a sync replaced one user and deleted another, and the directory
\* differs from what it was
C26_Witness ==
    /\ CleanFullUserSync /\ run = 1
    /\ result.updated # <<>> /\ result.deleted # <<>>
    /\ dirUsers # dir0.users
    /\ Len(dirUsers) = 1

\* a finished live group sync with no error
CleanGroupSync ==
    /\ api \in GroupApis /\ ~dry_run /\ pc = "done" /\ result.errors = <<>>

\* C27: after a live group sync that returns no error every desired group is
\* in the directory and, with D the ids of its desired member names that are
\* directory users, its members among the directory's users are exactly D
\* after a full sync and include D after an incremental sync.
C27_MembershipMatchesDesired ==
    CleanGroupSync =>
        \A i \in DOMAIN groups :
            LET name == groups[i].displayName
                pos == IndexOf(dirGroups, "displayName", name)
                D == DirIdsOf(Range(Get(members_map, name, <<>>)))
            IN /\ pos # 0
               /\ IF api = "full_sync_groups"
                  THEN dirMembers[dirGroups[pos]["id"]] \cap Ids(dirUsers) = D
                  ELSE D \subseteq dirMembers[dirGroups[pos]["id"]]

\* a full sync without error that created a group with a member and took a
\* member out of another
C27_Witness ==
    /\ CleanGroupSync /\ api = "full_sync_groups"
    /\ result.created # <<>> /\ result.updated # <<>>
    /\ \E g \in DOMAIN dir0.members : ~(dir0.members[g] \subseteq dirMembers[g])
    /\ \E g \in DOMAIN dirMembers \ DOMAIN dir0.members : dirMembers[g] # {}

\* the natural key of the item a step of the loop or of the delete phase is about
ItemAtHand ==
    IF pc = "loop"
    THEN (IF api \in UserApis THEN users[idx].userName ELSE groups[idx].displayName)
    ELSE (IF api \in UserApis THEN idc_users[idx].userName
          ELSE idc_groups[idx].displayName)

\* C28: in a live run the step of an item lists it in created, updated or
\* deleted only when none of the calls issued for it failed; when one of its
\* calls fails, the step leaves created, updated, deleted, unchanged and
\* details as they were and appends one entry for the item to errors, also
\* when an earlier call of the step took effect in the directory (the group
\* was created and the add-member patch that followed failed).
C28_ListedOnlyWhenAllSucceeded ==
    [][(pc \in {"loop", "delete"} /\ api \in SyncApis /\ ~dry_run) =>
        /\ (\E i \in DOMAIN NewCalls : Failed(NewCalls[i])) =>
              /\ \A f \in {"created", "updated", "deleted", "unchanged", "details"} :
                    result'[f] = result[f]
              /\ Len(result'.errors) = Len(result.errors) + 1
              /\ result'.errors[Len(result'.errors)][1] = ItemAtHand
              /\ Failed(NewCalls[Len(NewCalls)])
        /\ (\E f \in {"created", "updated", "deleted"} : result'[f] # result[f]) =>
              /\ \A i \in DOMAIN NewCalls : ~Failed(NewCalls[i])
              /\ result'.errors = result.errors
              /\ \E f \in {"created", "updated", "deleted"} :
                    result'[f] = Append(result[f], ItemAtHand)]_vars

\* a finished live group sync: a group was created in the directory, the
\* add-member patch that followed failed, and the group is in errors only
C28_Witness ==
    /\ api \in GroupApis /\ ~dry_run /\ pc = "done"
    /\ \E c \in DOMAIN calls :
          /\ c < Len(calls)
          /\ calls[c].method = "POST" /\ ~Failed(calls[c])
          /\ calls[c + 1].method = "PATCH" /\ Failed(calls[c + 1])
          /\ LET name == calls[c].body["displayName"]
             IN /\ IndexOf(dirGroups, "displayName", name) # 0
                /\ IndexOf(dir0.groups, "displayName", name) = 0
                /\ name \notin Range(result.created)
                /\ name \notin DOMAIN result.details
                /\ \E e \in DOMAIN result.errors : result.errors[e][1] = name

\* the desired list of the run, and the number of its items the loop is done with
Desired == IF api \in UserApis THEN users ELSE groups
DesiredKeyAt(i) ==
    IF api \in UserApis THEN users[i].userName ELSE groups[i].displayName
ItemsDone == IF pc = "loop" THEN idx - 1 ELSE Len(Desired)
\* the errors raised by desired items: those that name a desired key
ItemErrors ==
    SelectSeq(result.errors,
              LAMBDA e : \E i \in DOMAIN Desired : e[1] = DesiredKeyAt(i))
\* how often the key k is listed in the sequence of names l
Count(l, k) == Cardinality({i \in DOMAIN l : l[i] = k})

\* C29: every desired item the loop is done with has contributed exactly one
\* entry to exactly one of created, updated, unchanged and errors: for every
\* key, the entries of the four that name it are as many as the items done
\* that carry it, so in a returned outcome the entries of created, updated and
\* unchanged plus the errors of desired items are as many as the desired list
\* is long; deleted and the other errors name snapshot keys that are no
\* desired key, and come after the loop.
C29_OneEntryPerDesiredItem ==
    (api \in SyncApis /\ pc \in {"loop", "delete", "done"}) =>
        /\ Len(result.created) + Len(result.updated) + Len(result.unchanged)
             + Len(ItemErrors) = ItemsDone
        /\ pc = "done" =>
              Len(result.created) + Len(result.updated) + Len(result.unchanged)
                + Len(ItemErrors) = Len(Desired)
        /\ \A i \in DOMAIN Desired :
              LET k == DesiredKeyAt(i)
              IN Count(result.created, k) + Count(result.updated, k)
                   + Count(result.unchanged, k)
                   + Count([e \in DOMAIN ItemErrors |-> ItemErrors[e][1]], k)
                 = Cardinality({j \in 1..ItemsDone : DesiredKeyAt(j) = k})
        /\ \A i \in DOMAIN result.deleted :
              /\ \A j \in DOMAIN Desired : result.deleted[i] # DesiredKeyAt(j)
              /\ \E s \in DOMAIN Snapshot : SnapshotKey(Snapshot[s]) = result.deleted[i]
        /\ \A e \in DOMAIN result.errors :
              (\A j \in DOMAIN Desired : result.errors[e][1] # DesiredKeyAt(j)) =>
                  \E s \in DOMAIN Snapshot :
                      SnapshotKey(Snapshot[s]) = result.errors[e][1]
        /\ pc = "loop" => result.deleted = <<>> /\ ItemErrors = result.errors

\* a returned outcome of a two-item sync: one item failed, the other is listed
\* as created, updated or unchanged, and the delete phase added an entry
C29_Witness ==
    /\ api \in SyncApis /\ pc = "done"
    /\ Len(Desired) = 2
    /\ Len(ItemErrors) = 1
    /\ Len(result.created) + Len(result.updated) + Len(result.unchanged) = 1
    /\ Len(result.deleted) + Len(result.errors) >= 2

\* a patch that adds members
AddPatch(c) ==
    /\ c.method = "PATCH"
    /\ \E i \in DOMAIN c.body["Operations"] : c.body["Operations"][i]["op"] = "add"
\* a create, replace or patch call
Writes(c) == c.method \in {"POST", "PUT", "PATCH"}
\* the id the snapshot holds for the desired item at hand (NoId when absent)
SnapshotIdAtHand ==
    LET at == {s \in DOMAIN Snapshot : SnapshotKey(Snapshot[s]) = DesiredKeyAt(idx)}
    IN IF at = {} THEN NoId ELSE Snapshot[CHOOSE s \in at : TRUE].id

\* C30: the mutating calls of a sync come in a fixed order. The loop takes
\* the desired items in list order, one per step, and the create, replace and
\* patch calls of a step are about the item at hand: a create carries its key,
\* a replace or patch its snapshot id or the id just created. Within the step
\* of a group no add-member patch follows a remove-member patch, and a failed
\* call is the last call of its step, so no remove patch follows a failed
\* add. The loop issues no delete call, the delete phase issues nothing but
\* delete calls and is never left for the loop, so in the calls of one run
\* no create, replace or patch comes after a delete.
C30_CallOrder ==
    [][(api \in SyncApis) =>
        /\ pc = "loop" =>
              /\ pc' = "loop" => idx' = idx + 1
              /\ pc' # "loop" => idx = Len(Desired)
              /\ \A i \in DOMAIN NewCalls :
                    LET c == NewCalls[i]
                    IN /\ c.method # "DELETE"
                       /\ c.method = "POST" =>
                             c.body[IF api \in UserApis THEN "userName"
                                    ELSE "displayName"] = DesiredKeyAt(idx)
                       /\ c.method \in {"PUT", "PATCH"} =>
                             c.id = (IF SnapshotIdAtHand # NoId THEN SnapshotIdAtHand
                                     ELSE nextId)
                       /\ Failed(c) => i = Len(NewCalls)
                       /\ RemovePatch(c) =>
                             \A j \in DOMAIN NewCalls : j > i => ~AddPatch(NewCalls[j])
        /\ pc = "delete" =>
              /\ pc' \in {"delete", "done"}
              /\ \A i \in DOMAIN NewCalls : NewCalls[i].method = "DELETE"
        /\ \A i, j \in DOMAIN calls' :
              (i < j /\ calls'[i].method = "DELETE") => ~Writes(calls'[j])]_vars

\* a finished live full_sync_groups: an add-member patch and then a
\* remove-member patch went to one group, and a delete call came later
C30_Witness ==
    /\ api = "full_sync_groups" /\ ~dry_run /\ pc = "done"
    /\ \E i, j, k \in DOMAIN calls :
          /\ i < j /\ j < k
          /\ AddPatch(calls[i]) /\ RemovePatch(calls[j])
          /\ calls[i].id = calls[j].id
          /\ calls[k].method = "DELETE"

====
